---- MODULE Spec2Model ----
(***************************************************************************)
(* Outfit scoring, ranking, request normalisation and shopping links of    *)
(* the AI fashion stylist (services/stylist_service.py, routes/stylist.py, *)
(* app.py), and the gap analyzer and balance scorer of its wardrobe        *)
(* (wardrobe_intelligence.py, models/wardrobe.py), the magic-link tokens   *)
(* (auth.py) and the favorites and ratings files (app.py).                 *)
(*                                                                         *)
(* Python values are modelled as follows: strings are strings, the value   *)
(* None is the string "None", a list that is only tested with `in` is a    *)
(* set, the catalog (a list that is iterated in order) is a sequence, and  *)
(* a dict with fixed keys is a record.                                     *)
(***************************************************************************)
EXTENDS Integers, Sequences, FiniteSets, TLC

VARIABLES
    catalog,      \* OUTFIT_DATABASE / get_outfit_database(): sequence of outfit records
    outfit,       \* the outfit handed to calculate_outfit_score
    ctx,          \* the arguments of the last scorer / ranker call
    score,        \* value returned by services.calculate_outfit_score
    score_app,    \* value returned by app.calculate_outfit_score
    result,       \* value returned by rank_and_filter_outfits: catalog positions, in order
    returned,     \* the same value as the sequence of outfit records
    first,        \* arguments and result of the first ranker call
    between,      \* TRUE once a ranker call with other arguments followed the first
    raw,          \* predict: the six fields before the validation step
    status,       \* predict: the HTTP status of the response
    entry,        \* the function this behaviour calls from outside
    response,     \* predict: the outfits of the response, with the attached fields
    query,        \* arguments and result of the last generate_shopping_links call
    wardrobe,     \* the wardrobe collection of one user: how many items of each kind
    lifestyle,    \* the lifestyle key of the user's profile
    analysis,     \* analyze_wardrobe_gaps: the gap list before the sort, after it, and as returned
    balance,      \* value returned by calculate_wardrobe_balance
    gapcall,      \* analyze_wardrobe_gaps in progress: what each of its two reads returned
    magic_link_tokens, \* auth.magic_link_tokens: the token store
    now,          \* datetime.utcnow(), in minutes
    issued,       \* how many tokens secrets.token_urlsafe has produced
    auth_call,    \* the last call of a token function: its argument and return value
    emails_returned, \* per token, how often verify_magic_link_token returned its email
    files,        \* the contents of favorites.json and ratings.json
    requests      \* the favorite and rating requests being handled: position and locals

\* the variables of the wardrobe functions and of the link builder
wvars == <<query, wardrobe, lifestyle, analysis, balance>>

\* the variables of the token functions
avars == <<magic_link_tokens, now, issued, auth_call, emails_returned>>

\* the variables of the favorite and rating handlers
fvars == <<files, requests>>

\* the variables of what runs next to the stylist and the wardrobe functions
xvars == <<gapcall, avars, fvars>>

vars == <<catalog, outfit, ctx, score, score_app, result, returned, first, between, raw, status,
          entry, response, query, wardrobe, lifestyle, analysis, balance, gapcall,
          magic_link_tokens, now, issued, auth_call, emails_returned, files, requests>>

----------------------------------------------------------------------------
(* Bounds *)

\* largest number of tags in a set-valued outfit attribute (scorer inputs)
MaxTags == 1

\* largest catalog length (ranker inputs)
MaxCatalog == 4

\* largest catalog length where the results of repeated ranker calls are compared
MaxSeqCatalog == 2

----------------------------------------------------------------------------
(* Enumerated domains, as listed by predict's validation step *)

None == "None"

Occasions == {"casual", "formal", "party", "ethnic"}
Climates == {"hot", "moderate", "cold"}
Genders == {"mens", "womens", "unisex"}
AgeGroups == {"young", "adult", "senior"}
BodyTypes == {"slim", "regular", "relaxed"}
Budgets == {"low", "medium", "high"}

\* occasion subtypes that occur in the model's outfits and requests
Subtypes == {"office", "interview"}

\* no ranker call recorded yet / ranker calls are not recorded in this behaviour
NoCall == [called |-> FALSE, tracked |-> TRUE]
Untracked == [called |-> FALSE, tracked |-> FALSE]

\* a form field, profile key or dict key that is absent
Missing == "Missing"

\* dict.get(key, default)
Get(v, default) == IF v = Missing THEN default ELSE v

Min(a, b) == IF a <= b THEN a ELSE b

\* Python truthiness of an optional string: None and "" are falsy
Truthy(s) == s # None /\ s # ""

----------------------------------------------------------------------------
(* Python strings that the code takes apart or puts together *)

(* Such a string is the sequence of its pieces.  In a search text the pieces
   are the words and the single spaces between them; in a category name they
   are the letters. *)
Space == " "

\* str.rstrip(chars) for a one-character argument; str.rstrip() with c = Space
RECURSIVE rstrip(_, _)
rstrip(s, c) ==
    IF s # << >> /\ s[Len(s)] = c THEN rstrip(SubSeq(s, 1, Len(s) - 1), c) ELSE s

\* str.lstrip() with c = Space
RECURSIVE lstrip(_, _)
lstrip(s, c) ==
    IF s # << >> /\ Head(s) = c THEN lstrip(Tail(s), c) ELSE s

\* str.strip()
strip(s) == lstrip(rstrip(s, Space), Space)

\* sep.join(parts)
RECURSIVE join(_, _)
join(sep, parts) ==
    IF parts = << >> THEN << >>
    ELSE IF Len(parts) = 1 THEN parts[1]
    ELSE parts[1] \o sep \o join(sep, Tail(parts))

\* [p for p in parts if p]
NonEmptyParts(parts) == SelectSeq(parts, LAMBDA p : p # << >>)

----------------------------------------------------------------------------
(* generate_shopping_links *)

\* budget_hints.get(budget, "")
budget_hints(budget) ==
    CASE budget = "low"    -> <<"under", Space, "1000">>
      [] budget = "medium" -> <<"under", Space, "2500">>
      [] budget = "high"   -> <<"premium">>
      [] OTHER             -> << >>

\* occasion_contexts.get(occasion, {}).get(occasion_subtype, "")
occasion_contexts(occasion, occasion_subtype) ==
    CASE occasion = "casual" /\ occasion_subtype = "college"     -> <<"college">>
      [] occasion = "casual" /\ occasion_subtype = "daily"       -> <<"daily", Space, "wear">>
      [] occasion = "casual" /\ occasion_subtype = "travel"      -> <<"travel">>
      [] occasion = "formal" /\ occasion_subtype = "office"      -> <<"office">>
      [] occasion = "formal" /\ occasion_subtype = "meeting"     -> <<"formal">>
      [] occasion = "formal" /\ occasion_subtype = "interview"   -> <<"interview">>
      [] occasion = "party"  /\ occasion_subtype = "night"       -> <<"party">>
      [] occasion = "party"  /\ occasion_subtype = "wedding"     -> <<"party", Space, "wear">>
      [] occasion = "party"  /\ occasion_subtype = "festival"    -> <<"festive">>
      [] occasion = "ethnic" /\ occasion_subtype = "traditional" -> <<"traditional">>
      [] occasion = "ethnic" /\ occasion_subtype = "festive"     -> <<"festive">>
      [] OTHER                                                   -> << >>

\* gender_prefix: the gender word followed by a space
gender_prefix(gender) ==
    IF gender = "womens" THEN <<"women", Space>>
    ELSE IF gender = "mens" THEN <<"men", Space>>
    ELSE << >>

\* the body of the loop: the search text of one item
qualified_item(item, gender, budget, occasion, occasion_subtype) ==
    LET occasion_context == IF Truthy(occasion_subtype)
                            THEN occasion_contexts(occasion, occasion_subtype)
                            ELSE << >>
        query_parts == <<gender_prefix(gender), occasion_context, item, budget_hints(budget)>>
    IN  strip(join(<<Space>>, NonEmptyParts(query_parts)))

\* urllib.parse.quote_plus on a text of letters, digits and spaces
quote_plus(s) == [k \in DOMAIN s |-> IF s[k] = Space THEN "+" ELSE s[k]]

\* generate_shopping_links(items, gender, budget, occasion, occasion_subtype);
\* the three links of an item differ in the fixed address before the text only
generate_shopping_links(items, gender, budget, occasion, occasion_subtype) ==
    [k \in DOMAIN items |->
        [item  |-> items[k],
         links |-> quote_plus(qualified_item(items[k], gender, budget,
                                             occasion, occasion_subtype))]]

----------------------------------------------------------------------------
(* The wardrobe collection (models/wardrobe.py) *)

\* largest number of copies of one fully tagged kind of item in a wardrobe
MaxCopies == 3

\* largest number of copies of the untagged top and of the wishlist item
MaxPlain == 1

Seasons == {"spring", "summer", "fall", "winter"}

Categories == {"top", "bottom", "footwear", "outerwear", "accessory"}

\* ESSENTIAL_COLORS['neutrals']
neutrals == <<"Black", "White", "Grey", "Beige", "Navy">>

Range(s) == {s[k] : k \in DOMAIN s}

\* the colours of the fully tagged item of each category: between them the
\* five neutrals and three other colours
ItemColors(c) ==
    CASE c = "top"       -> {"Black", "White"}
      [] c = "bottom"    -> {"Grey"}
      [] c = "footwear"  -> {"Beige"}
      [] c = "outerwear" -> {"Navy"}
      [] c = "accessory" -> {"Red", "Blue", "Green"}

\* an owned item of each category, tagged with every occasion and every season
TaggedItems ==
    {[category |-> c, occasions |-> Occasions, season |-> Seasons,
      colors |-> ItemColors(c), owned |-> TRUE] : c \in Categories}

\* an owned top tagged casual, the other fields as WardrobeItem.create leaves them
PlainTop ==
    [category |-> "top", occasions |-> {"casual"}, season |-> {}, colors |-> {},
     owned |-> TRUE]

\* an item on the wishlist: stored with owned = False
WishlistItem ==
    [category |-> "bottom", occasions |-> {"casual"}, season |-> {"summer"},
     colors |-> {"Black", "White", "Grey", "Beige", "Pink"}, owned |-> FALSE]

\* the wishlist item once mark_owned has set owned = True
BoughtItem == [WishlistItem EXCEPT !.owned = TRUE]

ItemPool == TaggedItems \cup {PlainTop, WishlistItem, BoughtItem}

\* a wardrobe: the number of stored items of each kind (no function of the
\* wardrobe code depends on the order of the items); no item of the wishlist
\* has been marked owned yet
Wardrobes ==
    {w \in [ItemPool -> 0..MaxCopies] :
        w[PlainTop] <= MaxPlain /\ w[WishlistItem] <= MaxPlain /\ w[BoughtItem] = 0}

EmptyWardrobe == [k \in ItemPool |-> 0]

\* len([i for i in items if i is of a kind in S])
RECURSIVE CountOf(_, _)
CountOf(items, S) ==
    IF S = {} THEN 0
    ELSE LET k == CHOOSE x \in S : TRUE
         IN  items[k] + CountOf(items, S \ {k})

\* WardrobeItem.get_user_wardrobe(user_id)
get_user_wardrobe(w) == w

\* the list of all items, owned or not
every_item_of(w) == w

\* [item for item in wardrobe if item.get('owned', True)]
owned_items_of(w) == [k \in ItemPool |-> IF k.owned THEN w[k] ELSE 0]

\* WardrobeItem.create(user_id, item_data): one more stored item of kind k
create(w, k) == [w EXCEPT ![k] = @ + 1]

\* most copies of kind k a wardrobe holds
Copies(k) == IF k \in {PlainTop, WishlistItem, BoughtItem} THEN MaxPlain ELSE MaxCopies

\* WardrobeItem.remove_item(item_id, user_id) for a stored item of kind k
remove_item(w, k) == [w EXCEPT ![k] = @ - 1]

\* WardrobeItem.mark_owned(item_id, owned_status) for a stored item of kind k
mark_owned(w, k, owned_status) ==
    LET marked == [k EXCEPT !.owned = owned_status]
    IN  IF marked = k THEN w
        ELSE [w EXCEPT ![k] = @ - 1, ![marked] = @ + 1]

\* WardrobeItem.get_wardrobe_stats(user_id); a key that the code leaves out of
\* a dict maps to 0, the value every reader passes to .get
get_wardrobe_stats(w) ==
    [total_items |-> CountOf(w, ItemPool),
     owned_items |-> CountOf(w, {k \in ItemPool : k.owned}),
     by_category |-> [c \in Categories |-> CountOf(w, {k \in ItemPool : k.category = c})],
     by_occasion |-> [x \in Occasions |-> CountOf(w, {k \in ItemPool : x \in k.occasions})],
     by_season   |-> [s \in Seasons |-> CountOf(w, {k \in ItemPool : s \in k.season})],
     colors      |-> UNION {k.colors : k \in {x \in ItemPool : w[x] > 0}}]

\* values of the variables of the wardrobe functions before any call
NoQuery == [called |-> FALSE]
NoAnalysis == [called |-> FALSE]
NoBalance == [called |-> FALSE]

WardrobeIdle ==
    /\ query = NoQuery
    /\ wardrobe = EmptyWardrobe
    /\ lifestyle = Missing
    /\ analysis = NoAnalysis
    /\ balance = NoBalance

----------------------------------------------------------------------------
(* The gap analyzer (wardrobe_intelligence.py) *)

\* number of gaps analyze_wardrobe_gaps returns at most
TopGaps == 10

\* the letters of the category names the analyzer handles
Letters(w) ==
    CASE w = "top"         -> <<"t", "o", "p">>
      [] w = "tops"        -> <<"t", "o", "p", "s">>
      [] w = "bottom"      -> <<"b", "o", "t", "t", "o", "m">>
      [] w = "bottoms"     -> <<"b", "o", "t", "t", "o", "m", "s">>
      [] w = "footwear"    -> <<"f", "o", "o", "t", "w", "e", "a", "r">>
      [] w = "outerwear"   -> <<"o", "u", "t", "e", "r", "w", "e", "a", "r">>
      [] w = "accessory"   -> <<"a", "c", "c", "e", "s", "s", "o", "r", "y">>
      [] w = "accessories" -> <<"a", "c", "c", "e", "s", "s", "o", "r", "i", "e", "s">>
      [] w = ""            -> << >>

\* the keys of WARDROBE_ESSENTIALS[occasion], in the order of the dict
WARDROBE_ESSENTIALS(occasion) ==
    IF occasion \in {"casual", "formal"}
    THEN <<"tops", "bottoms", "footwear", "outerwear">>
    ELSE <<"tops", "bottoms", "footwear", "accessories">>

\* SEASON_ESSENTIALS: the seasons in the order of the dict, and their items
SeasonOrder == <<"winter", "summer", "spring", "fall">>

SEASON_ESSENTIALS(season) ==
    CASE season = "winter" -> <<"Coat", "Sweater", "Boots", "Scarf">>
      [] season = "summer" -> <<"Light Shirt", "Shorts", "Sandals">>
      [] season = "spring" -> <<"Light Jacket", "Casual Shirt">>
      [] season = "fall"   -> <<"Jacket", "Long Pants">>

\* a gap dict; a key the detector does not set is Missing.  The texts
\* item_name, reason and shopping_query are left out: no later step reads them.
Gap(type, occasion, category, season, priority, colors_needed, suggestions) ==
    [type |-> type, occasion |-> occasion, category |-> category, season |-> season,
     priority |-> priority, colors_needed |-> colors_needed, suggestions |-> suggestions,
     outfits_unlocked |-> Missing]

\* the lists of a list of lists, one after the other
RECURSIVE Concat(_)
Concat(ss) == IF ss = << >> THEN << >> ELSE Head(ss) \o Concat(Tail(ss))

\* s[:n]
Prefix(s, n) == SubSeq(s, 1, Min(n, Len(s)))

\* important_occasions with 'student' also in the list of the second test
important_occasions_student_formal(ls) ==
    (IF ls \in {"student", "mixed"} THEN <<"casual">> ELSE << >>)
    \o (IF ls \in {"student", "office", "mixed"} THEN <<"formal", "casual">> ELSE << >>)
    \o (IF ls = "mixed" THEN <<"party">> ELSE << >>)

\* important_occasions of _analyze_occasion_gaps
important_occasions(ls) ==
    (IF ls \in {"student", "mixed"} THEN <<"casual">> ELSE << >>)
    \o (IF ls \in {"office", "mixed"} THEN <<"formal", "casual">> ELSE << >>)
    \o (IF ls = "mixed" THEN <<"party">> ELSE << >>)

\* has_category: an owned item tagged with the occasion whose category is the
\* essential category without its trailing letters s
has_category(owned, occasion, category) ==
    \E k \in ItemPool :
        /\ owned[k] > 0
        /\ occasion \in k.occasions
        /\ Letters(k.category) = rstrip(Letters(category), "s")

\* _analyze_occasion_gaps(owned_items, stats, user_profile)
analyze_occasion_gaps(owned, profile_lifestyle) ==
    LET ls == Get(profile_lifestyle, "mixed")
        occasions == important_occasions(ls)
        gaps_of(occasion) ==
            LET missing == SelectSeq(WARDROBE_ESSENTIALS(occasion),
                                     LAMBDA c : ~has_category(owned, occasion, c))
            IN  [k \in DOMAIN missing |->
                    Gap("occasion_category", occasion, missing[k], Missing,
                        IF occasion = "formal" /\ ls = "office" THEN "high" ELSE "medium",
                        Missing, Missing)]
    IN  Concat([i \in DOMAIN occasions |-> gaps_of(occasions[i])])

\* _analyze_color_gaps(owned_items, stats); of the texts of the gap, item_name
\* is kept as the list of the neutrals it names
analyze_color_gaps(stats) ==
    LET missing_neutrals == SelectSeq(neutrals, LAMBDA c : c \notin stats.colors)
    IN  IF Len(missing_neutrals) >= 2
        THEN <<[item_name |-> Prefix(missing_neutrals, 2)]
               @@ Gap("color_neutral", Missing, Missing, Missing, "high",
                      missing_neutrals, Missing)>>
        ELSE << >>

\* _analyze_season_gaps(owned_items, stats)
analyze_season_gaps(stats) ==
    LET short == SelectSeq(SeasonOrder, LAMBDA s : stats.by_season[s] < 2)
    IN  [k \in DOMAIN short |->
            Gap("season", Missing, Missing, short[k], "medium", Missing,
                Prefix(SEASON_ESSENTIALS(short[k]), 2))]

\* the category detector with every missing category at priority medium
analyze_category_gaps_all_medium(stats) ==
    LET gaps_of(category) ==
            IF stats.by_category[category] < 3
            THEN <<Gap(IF stats.by_category[category] = 0
                       THEN "category_missing" ELSE "category_low",
                       Missing, category, Missing, "medium", Missing, Missing)>>
            ELSE << >>
    IN  gaps_of("top") \o gaps_of("bottom") \o gaps_of("footwear")
        \o (IF stats.by_category["outerwear"] = 0
            THEN <<Gap("category_missing", Missing, "outerwear", Missing, "medium",
                       Missing, Missing)>>
            ELSE << >>)

\* _analyze_category_gaps(owned_items, stats)
analyze_category_gaps(stats) ==
    LET gaps_of(category) ==
            IF stats.by_category[category] = 0
            THEN <<Gap("category_missing", Missing, category, Missing, "high",
                       Missing, Missing)>>
            ELSE IF stats.by_category[category] < 3
            THEN <<Gap("category_low", Missing, category, Missing, "medium",
                       Missing, Missing)>>
            ELSE << >>
    IN  gaps_of("top") \o gaps_of("bottom") \o gaps_of("footwear")
        \o (IF stats.by_category["outerwear"] = 0
            THEN <<Gap("category_missing", Missing, "outerwear", Missing, "medium",
                       Missing, Missing)>>
            ELSE << >>)

Max(a, b) == IF a >= b THEN a ELSE b

\* len([i for i in owned_items if i.get('category') == c])
OwnedIn(owned, c) == CountOf(owned, {k \in ItemPool : k.category = c})

\* the outfit potential as the bare product, without the floor of 5
outfit_potential_without_floor(gap, owned) ==
    LET gap_category == rstrip(Letters(Get(gap.category, "")), "s")
    IN  IF gap_category = << >> THEN 5
        ELSE IF gap_category = Letters("top")
        THEN OwnedIn(owned, "bottom") * OwnedIn(owned, "footwear")
        ELSE IF gap_category = Letters("bottom")
        THEN OwnedIn(owned, "top") * OwnedIn(owned, "footwear")
        ELSE IF gap_category = Letters("footwear")
        THEN OwnedIn(owned, "top") * OwnedIn(owned, "bottom")
        ELSE IF gap_category = Letters("outerwear")
        THEN OwnedIn(owned, "top") * 2
        ELSE 5

\* _calculate_outfit_potential(gap, owned_items)
calculate_outfit_potential(gap, owned) ==
    LET gap_category == rstrip(Letters(Get(gap.category, "")), "s")
    IN  IF gap_category = << >> THEN 5
        ELSE IF gap_category = Letters("top")
        THEN Max(OwnedIn(owned, "bottom") * OwnedIn(owned, "footwear"), 5)
        ELSE IF gap_category = Letters("bottom")
        THEN Max(OwnedIn(owned, "top") * OwnedIn(owned, "footwear"), 5)
        ELSE IF gap_category = Letters("footwear")
        THEN Max(OwnedIn(owned, "top") * OwnedIn(owned, "bottom"), 5)
        ELSE IF gap_category = Letters("outerwear")
        THEN Max(OwnedIn(owned, "top") * 2, 5)
        ELSE 5

\* _priority_score(priority)
priority_score(priority) ==
    CASE priority = "high"   -> 3
      [] priority = "medium" -> 2
      [] priority = "low"    -> 1
      [] OTHER               -> 1

\* the sort key compares smaller: the key is the pair
\* (-_priority_score(priority), -outfits_unlocked)
KeyLess(g, h) ==
    \/ priority_score(g.priority) > priority_score(h.priority)
    \/ /\ priority_score(g.priority) = priority_score(h.priority)
       /\ g.outfits_unlocked > h.outfits_unlocked

\* insertion of gap x into a list sorted by the key, behind the gaps whose key
\* is not larger: list.sort is stable
RECURSIVE InsertGap(_, _)
InsertGap(s, x) ==
    IF s = << >> THEN <<x>>
    ELSE IF KeyLess(x, Head(s)) THEN <<x>> \o s
    ELSE <<Head(s)>> \o InsertGap(Tail(s), x)

\* the sort with the priority rank as its only key
RECURSIVE sort_gaps_by_priority_only(_)
sort_gaps_by_priority_only(s) ==
    IF s = << >> THEN << >>
    ELSE LET rest == sort_gaps_by_priority_only(SubSeq(s, 1, Len(s) - 1))
             x == s[Len(s)]
             before == SelectSeq(rest, LAMBDA g :
                           priority_score(g.priority) >= priority_score(x.priority))
             after == SelectSeq(rest, LAMBDA g :
                           priority_score(g.priority) < priority_score(x.priority))
         IN  before \o <<x>> \o after

\* gaps.sort(key=...)
RECURSIVE sort_gaps(_)
sort_gaps(s) ==
    IF s = << >> THEN << >>
    ELSE InsertGap(sort_gaps(SubSeq(s, 1, Len(s) - 1)), s[Len(s)])

\* analyze_wardrobe_gaps after its two reads: the list gaps when the potential
\* of every gap is set, the list after the sort, and the value returned
gaps_from(owned_items, stats, profile_lifestyle) ==
    LET found == analyze_occasion_gaps(owned_items, profile_lifestyle)
                 \o analyze_color_gaps(stats)
                 \o analyze_season_gaps(stats)
                 \o analyze_category_gaps(stats)
        gaps == [k \in DOMAIN found |->
                    [found[k] EXCEPT !.outfits_unlocked =
                        calculate_outfit_potential(found[k], owned_items)]]
        sorted == sort_gaps(gaps)
    IN  [called |-> TRUE, gaps |-> gaps, sorted |-> sorted,
         returned |-> Prefix(sorted, TopGaps)]

\* analyze_wardrobe_gaps(user_id, user_profile) when no request changes the
\* wardrobe between its two reads
analyze_wardrobe_gaps(w, profile_lifestyle) ==
    gaps_from(owned_items_of(get_user_wardrobe(w)), get_wardrobe_stats(w),
              profile_lifestyle)

----------------------------------------------------------------------------
(* The balance scorer (wardrobe_intelligence.py) *)

\* the quotient n / d cut off below
RoundDown(n, d) == n \div d

\* round(n / d) for integers n >= 0 and d > 0: Python rounds a tie to the even
\* neighbour
RoundHalfEven(n, d) ==
    LET q == n \div d
        r == n % d
    IN  IF 2 * r < d THEN q
        ELSE IF 2 * r > d THEN q + 1
        ELSE IF q % 2 = 0 THEN q ELSE q + 1

\* the readiness score without the cap at 100
readiness_uncapped(count) == RoundHalfEven(count * 100, 3)

\* round(min(100, (count / 3) * 100))
readiness(count) == RoundHalfEven(Min(300, count * 100), 3)

\* sum of the values of f at the keys in S
RECURSIVE SumOf(_, _)
SumOf(f, S) ==
    IF S = {} THEN 0
    ELSE LET k == CHOOSE x \in S : TRUE
         IN  f[k] + SumOf(f, S \ {k})

\* calculate_wardrobe_balance(user_id).  A percentage is kept in tenths of a
\* percent (the code rounds it to one decimal), and color_diversity, which the
\* code does not round, as the fraction num / den.
calculate_wardrobe_balance(w) ==
    LET stats == get_wardrobe_stats(w)
        occasion_readiness == [o \in Occasions |-> readiness(stats.by_occasion[o])]
        total_items == stats.total_items
        category_balance ==
            [c \in Categories |->
                [count |-> stats.by_category[c],
                 percentage |-> IF total_items > 0
                                THEN RoundHalfEven(stats.by_category[c] * 1000, total_items)
                                ELSE 0]]
        season_coverage == [s \in Seasons |-> readiness(stats.by_season[s])]
        color_count == Cardinality(stats.colors)
        color_diversity == [num |-> Min(800, color_count * 100), den |-> 8]
        total == 8 * (SumOf(occasion_readiness, Occasions) + SumOf(season_coverage, Seasons))
                 + color_diversity.num
    IN  [called |-> TRUE,
         overall_score |-> RoundHalfEven(total, 9 * 8),
         occasion_readiness |-> occasion_readiness,
         category_balance |-> category_balance,
         season_coverage |-> season_coverage,
         color_diversity |-> color_diversity]

----------------------------------------------------------------------------
(* The magic-link tokens (auth.py) *)

\* number of tokens generate_magic_link_token hands out
MaxTokens == 2

\* the clock stops at MaxTime minutes and advances TickMinutes at a time
MaxTime == 20

TickMinutes == 5

\* Config.MAGIC_LINK_EXPIRATION_MINUTES
MAGIC_LINK_EXPIRATION_MINUTES == 15

Emails == {"a@example.com", "b@example.com"}

\* secrets.token_urlsafe(32) returns a value it has not returned before: the
\* k-th token is k
Tokens == 1..MaxTokens

\* the tokens a caller may present: those handed out and one never handed out
PresentedTokens == 1..(MaxTokens + 1)

\* the store maps a token that is not one of its keys to NoToken
NoToken == [stored |-> FALSE]

\* magic_link_tokens = {}
NoTokens == [t \in Tokens |-> NoToken]

\* generate_magic_link_token(email): the store after the call (the call
\* returns token)
generate_magic_link_token(store, token, email, utcnow) ==
    [store EXCEPT ![token] =
        [stored |-> TRUE, email |-> email,
         expires_at |-> utcnow + MAGIC_LINK_EXPIRATION_MINUTES]]

\* a verification that leaves the token of a successful call in the store
verify_keeps_token(store, token, utcnow) ==
    IF token \notin Tokens \/ ~store[token].stored
    THEN [value |-> None, tokens |-> store]
    ELSE IF utcnow > store[token].expires_at
    THEN [value |-> None, tokens |-> [store EXCEPT ![token] = NoToken]]
    ELSE [value |-> store[token].email, tokens |-> store]

\* verify_magic_link_token(token): the value returned and the store after the call
verify_magic_link_token(store, token, utcnow) ==
    IF token \notin Tokens \/ ~store[token].stored
    THEN [value |-> None, tokens |-> store]
    ELSE IF utcnow > store[token].expires_at
    THEN [value |-> None, tokens |-> [store EXCEPT ![token] = NoToken]]
    ELSE [value |-> store[token].email, tokens |-> [store EXCEPT ![token] = NoToken]]

NoAuthCall == [op |-> "none"]

AuthIdle ==
    /\ magic_link_tokens = NoTokens
    /\ now = 0
    /\ issued = 0
    /\ auth_call = NoAuthCall
    /\ emails_returned = [t \in PresentedTokens |-> 0]

----------------------------------------------------------------------------
(* The favorites and ratings files (app.py) *)

\* number of favorite and rating requests handled at the same time
MaxRequests == 2

\* ids of outfits in OUTFIT_DATABASE ("outfit_001" is 1) and an id that is
\* not in it
OutfitIds == {1, 2}

UnknownOutfit == 9

\* data.get('device_id', '') of the request bodies: texts as sequences of
\* tokens, the empty one also for a body without the key
RawDeviceIds == {<<"d1">>, <<Space, "d1">>, <<Space>>, << >>}

\* outfit_exists(outfit_id)
outfit_exists(outfit_id) == outfit_id \in OutfitIds

\* normalize_device_id(device_id) for a text
normalize_device_id(device_id) == Prefix(strip(device_id), 128)

DeviceIds == {normalize_device_id(d) : d \in RawDeviceIds} \ {<< >>}

\* sorted(S) for a set S of numbers
RECURSIVE sorted_ids(_)
sorted_ids(S) ==
    IF S = {} THEN << >>
    ELSE LET least == CHOOSE x \in S : \A y \in S : x <= y
         IN  <<least>> \o sorted_ids(S \ {least})

\* load_json_file(filepath, {}) when the file does not exist; a reader of a
\* dict passes the empty list to .get for a key that is not there
NoFavorites == [d \in DeviceIds |-> << >>]

NoRatingsFile == [o \in OutfitIds |-> << >>]

NoFiles == [favorites |-> NoFavorites, ratings |-> NoRatingsFile]

\* add_favorite between load_json_file and save_json_file
favorites_with(favorites, device_id, outfit_id) ==
    LET existing_favorites == Range(favorites[device_id]) \cup {outfit_id}
    IN  [favorites EXCEPT ![device_id] = sorted_ids(existing_favorites)]

\* remove_favorite between load_json_file and save_json_file
favorites_without(favorites, device_id, outfit_id) ==
    LET existing_favorites == Range(favorites[device_id]) \ {outfit_id}
    IN  [favorites EXCEPT ![device_id] = sorted_ids(existing_favorites)]

\* add_rating between load_json_file and save_json_file
ratings_with(ratings, outfit_id, rating) ==
    [ratings EXCEPT ![outfit_id] = Append(@, rating)]

\* the ratings of the request bodies: one that add_rating accepts and one
\* above 5
Ratings == {5, 6}

\* a request from its arrival to load_json_file: the checks of the handler,
\* and the dict it loads
loaded_by(req, stored) ==
    CASE req.kind = "add_favorite" ->
            IF ~outfit_exists(req.outfit_id)
            THEN [req |-> req, pc |-> "returned", status |-> "404"]
            ELSE IF normalize_device_id(req.device_id) = << >>
            THEN [req |-> req, pc |-> "returned", status |-> "400"]
            ELSE [req |-> req, pc |-> "loaded", favorites |-> stored.favorites]
      [] req.kind = "remove_favorite" ->
            IF normalize_device_id(req.device_id) = << >>
            THEN [req |-> req, pc |-> "returned", status |-> "400"]
            ELSE [req |-> req, pc |-> "loaded", favorites |-> stored.favorites]
      [] req.kind = "add_rating" ->
            IF ~outfit_exists(req.outfit_id)
            THEN [req |-> req, pc |-> "returned", status |-> "404"]
            ELSE IF req.rating < 1 \/ req.rating > 5
            THEN [req |-> req, pc |-> "returned", status |-> "400"]
            ELSE [req |-> req, pc |-> "loaded", ratings |-> stored.ratings]

\* save_json_file of a request that has loaded its dict: the files afterwards
saved_by(p, stored) ==
    CASE p.req.kind = "add_favorite" ->
            [stored EXCEPT !.favorites =
                favorites_with(p.favorites, normalize_device_id(p.req.device_id),
                               p.req.outfit_id)]
      [] p.req.kind = "remove_favorite" ->
            [stored EXCEPT !.favorites =
                favorites_without(p.favorites, normalize_device_id(p.req.device_id),
                                  p.req.outfit_id)]
      [] p.req.kind = "add_rating" ->
            [stored EXCEPT !.ratings = ratings_with(p.ratings, p.req.outfit_id, p.req.rating)]

\* the status of the response after save_json_file
success_status(kind) == IF kind = "remove_favorite" THEN "200" ELSE "201"

FilesIdle ==
    /\ files = NoFiles
    /\ requests = << >>

----------------------------------------------------------------------------
(* What runs next to the stylist and the wardrobe functions *)

NoGapCall == [pc |-> "idle"]

OthersIdle ==
    /\ gapcall = NoGapCall
    /\ AuthIdle
    /\ FilesIdle

----------------------------------------------------------------------------
(* The scorer *)

\* the sum of the five bonuses behind the gender bonus g, with the body-type
\* weight wb and the budget term taken as a parameter
Bonuses(o, g, occasion, occasion_subtype, climate, body_type, wb, budget_term) ==
    g + (IF o.occasion = occasion THEN 80 ELSE 0)
      + (IF Truthy(occasion_subtype) /\ occasion_subtype \in o.occasion_subtype THEN 40 ELSE 0)
      + (IF climate \in o.climate THEN 30 ELSE 0)
      + (IF body_type \in o.body_type THEN wb ELSE 0)
      + budget_term

BudgetTerm(o, budget) ==
    IF o.budget = budget THEN 40
    ELSE IF (budget = "medium" /\ o.budget = "low") \/ budget = "high" THEN 20 ELSE 0

\* the scorer with `pass` in place of `return 0`: an incompatible gender earns
\* no gender bonus and the other bonuses are still added
score_gate_falls_through(o, clothing_style, occasion, occasion_subtype, climate, body_type, budget) ==
    Bonuses(o, IF o.gender = clothing_style THEN 100
               ELSE IF o.gender = "unisex" THEN 50 ELSE 0,
            occasion, occasion_subtype, climate, body_type, 60, BudgetTerm(o, budget))

\* the scorer with the body-type weight of the baseline scheme (15 for 60)
score_baseline_body_weight(o, clothing_style, occasion, occasion_subtype, climate, body_type, budget) ==
    IF o.gender # clothing_style /\ o.gender # "unisex" THEN 0
    ELSE Bonuses(o, IF o.gender = clothing_style THEN 100 ELSE 50,
                 occasion, occasion_subtype, climate, body_type, 15, BudgetTerm(o, budget))

\* the scorer with the two budget branches in the other order: the upgrade
\* test comes first, so an exact match on a high budget earns 20
score_upgrade_branch_first(o, clothing_style, occasion, occasion_subtype, climate, body_type, budget) ==
    IF o.gender # clothing_style /\ o.gender # "unisex" THEN 0
    ELSE Bonuses(o, IF o.gender = clothing_style THEN 100 ELSE 50,
                 occasion, occasion_subtype, climate, body_type, 60,
                 IF (budget = "medium" /\ o.budget = "low") \/ budget = "high" THEN 20
                 ELSE IF o.budget = budget THEN 40 ELSE 0)

\* services/stylist_service.py, calculate_outfit_score
calculate_outfit_score(o, clothing_style, occasion, occasion_subtype, climate, body_type, budget) ==
    IF o.gender # clothing_style /\ o.gender # "unisex"
    THEN 0
    ELSE LET s1 == IF o.gender = clothing_style THEN 100 ELSE 50
             s2 == s1 + (IF o.occasion = occasion THEN 80 ELSE 0)
             s3 == s2 + (IF Truthy(occasion_subtype) /\ occasion_subtype \in o.occasion_subtype
                         THEN 40 ELSE 0)
             s4 == s3 + (IF climate \in o.climate THEN 30 ELSE 0)
             s5 == s4 + (IF body_type \in o.body_type THEN 60 ELSE 0)
             s6 == s5 + (IF o.budget = budget THEN 40
                         ELSE IF (budget = "medium" /\ o.budget = "low") \/ budget = "high"
                              THEN 20 ELSE 0)
         IN s6

\* app.py, calculate_outfit_score (the second copy of the scorer)
app_calculate_outfit_score(o, clothing_style, occasion, occasion_subtype, climate, body_type, budget) ==
    IF o.gender = clothing_style
    THEN LET a == 100 + (IF o.occasion = occasion THEN 80 ELSE 0)
             b == a + (IF Truthy(occasion_subtype) /\ occasion_subtype \in o.occasion_subtype
                       THEN 40 ELSE 0)
             c == b + (IF climate \in o.climate THEN 30 ELSE 0)
             d == c + (IF body_type \in o.body_type THEN 60 ELSE 0)
         IN  IF o.budget = budget THEN d + 40
             ELSE IF (budget = "medium" /\ (o.budget = "low")) \/ (budget = "high")
                  THEN d + 20 ELSE d
    ELSE IF o.gender = "unisex"
    THEN LET a == 50 + (IF o.occasion = occasion THEN 80 ELSE 0)
             b == a + (IF Truthy(occasion_subtype) /\ occasion_subtype \in o.occasion_subtype
                       THEN 40 ELSE 0)
             c == b + (IF climate \in o.climate THEN 30 ELSE 0)
             d == c + (IF body_type \in o.body_type THEN 60 ELSE 0)
         IN  IF o.budget = budget THEN d + 40
             ELSE IF (budget = "medium" /\ (o.budget = "low")) \/ (budget = "high")
                  THEN d + 20 ELSE d
    ELSE 0

ScoreOf(o, c) ==
    calculate_outfit_score(o, c.clothing_style, c.occasion, c.occasion_subtype,
                           c.climate, c.body_type, c.budget)

AppScoreOf(o, c) ==
    app_calculate_outfit_score(o, c.clothing_style, c.occasion, c.occasion_subtype,
                               c.climate, c.body_type, c.budget)

----------------------------------------------------------------------------
(* Inputs of the scorer specification *)

TagSets(D) == {S \in SUBSET D : Cardinality(S) <= MaxTags}
NonEmptyTagSets(D) == {S \in TagSets(D) : S # {}}

\* the scorer never reads age_group, so its inputs carry one value of it
ScoreOutfits ==
    [gender : Genders, occasion : Occasions, occasion_subtype : TagSets(Subtypes),
     climate : NonEmptyTagSets(Climates), age_group : {{"adult"}},
     body_type : NonEmptyTagSets(BodyTypes), budget : Budgets]

ScoreContexts ==
    [clothing_style : Genders, occasion : Occasions,
     occasion_subtype : {None, ""} \cup Subtypes,
     climate : Climates, age_group : {"adult"}, body_type : BodyTypes, budget : Budgets]

NoOutfit == [gender |-> None]
NoCtx == [clothing_style |-> None]

\* TRUE once the scorer has been called in this run
Scored == outfit # NoOutfit /\ ctx # NoCtx

InitScore ==
    /\ outfit \in ScoreOutfits
    /\ ctx = NoCtx
    /\ score = 0
    /\ score_app = 0
    /\ catalog = << >>
    /\ result = << >>
    /\ returned = << >>
    /\ first = Untracked
    /\ between = FALSE
    /\ raw = NoCtx
    /\ status = "none"
    /\ entry = "calculate_outfit_score"
    /\ response = << >>
    /\ WardrobeIdle
    /\ OthersIdle

\* one call of calculate_outfit_score(outfit, ...) in each copy of the scorer
ScoreCall ==
    /\ entry = "calculate_outfit_score"
    /\ ctx = NoCtx
    /\ \E c \in ScoreContexts :
        /\ ctx' = c
        /\ score' = ScoreOf(outfit, c)
        /\ score_app' = AppScoreOf(outfit, c)
        /\ UNCHANGED <<catalog, outfit, result, returned, first, between, raw, status, entry, response, wvars, xvars>>

NextScore == ScoreCall

SpecScore == InitScore /\ [][NextScore]_vars

----------------------------------------------------------------------------
(* The ranker *)

\* number of outfits rank_and_filter_outfits returns at most: scored_outfits[:3]
TopN == 3

\* the pre-filter without its age-group test
PreFilterWithoutAge(o, clothing_style, age_group) ==
    /\ ~(clothing_style = "mens" /\ o.gender = "womens")
    /\ ~(clothing_style = "womens" /\ o.gender = "mens")

\* the hard pre-filter at the head of the ranker's loop: FALSE where the code
\* executes `continue`
PreFilter(o, clothing_style, age_group) ==
    /\ age_group \in o.age_group
    /\ ~(clothing_style = "mens" /\ o.gender = "womens")
    /\ ~(clothing_style = "womens" /\ o.gender = "mens")

\* the test `score >= 0` in place of `score > 0`
KeepAnyScore(s) == s >= 0

\* the test that appends (score, outfit) to scored_outfits
KeepScore(s) == s > 0

\* the list scored_outfits after the loop over the first n catalog entries:
\* pairs <<score, position in the catalog>>, in catalog order
RECURSIVE scored_outfits(_, _, _)
scored_outfits(cat, c, n) ==
    IF n = 0 THEN << >>
    ELSE LET prev == scored_outfits(cat, c, n - 1)
             o == cat[n]
         IN  IF ~PreFilter(o, c.clothing_style, c.age_group) THEN prev
             ELSE IF KeepScore(ScoreOf(o, c)) THEN Append(prev, <<ScoreOf(o, c), n>>)
             ELSE prev

\* insertion in front of the elements with an equal key: equal scores come out
\* in reverse catalog order
RECURSIVE InsertBeforeEqual(_, _)
InsertBeforeEqual(s, x) ==
    IF s = << >> THEN <<x>>
    ELSE IF Head(s)[1] > x[1] THEN <<Head(s)>> \o InsertBeforeEqual(Tail(s), x)
    ELSE <<x>> \o s

\* position at which a stable descending sort places x in the sorted list s:
\* behind every element whose key is greater or equal
RECURSIVE InsertDesc(_, _)
InsertDesc(s, x) ==
    IF s = << >> THEN <<x>>
    ELSE IF Head(s)[1] >= x[1] THEN <<Head(s)>> \o InsertDesc(Tail(s), x)
    ELSE <<x>> \o s

RECURSIVE InsertAsc(_, _)
InsertAsc(s, x) ==
    IF s = << >> THEN <<x>>
    ELSE IF Head(s)[1] <= x[1] THEN <<Head(s)>> \o InsertAsc(Tail(s), x)
    ELSE <<x>> \o s

\* the sort without reverse=True: stable, ascending by score
RECURSIVE SortAsc(_)
SortAsc(s) ==
    IF s = << >> THEN << >>
    ELSE InsertAsc(SortAsc(SubSeq(s, 1, Len(s) - 1)), s[Len(s)])

\* list.sort(key=lambda x: x[0], reverse=True): stable, descending by score
RECURSIVE SortDesc(_)
SortDesc(s) ==
    IF s = << >> THEN << >>
    ELSE InsertDesc(SortDesc(SubSeq(s, 1, Len(s) - 1)), s[Len(s)])

\* services/stylist_service.py, rank_and_filter_outfits: the returned outfits,
\* each named by its position in the catalog
rank_and_filter_outfits(cat, c) ==
    LET sorted == SortDesc(scored_outfits(cat, c, Len(cat)))
    IN  [k \in 1..Min(TopN, Len(sorted)) |-> sorted[k][2]]

\* the catalog after OUTFIT_DATABASE.sort(...) had sorted the catalog itself,
\* descending by the score for the request
catalog_sorted_in_place(cat, c) ==
    LET sorted == SortDesc([i \in 1..Len(cat) |-> <<ScoreOf(cat[i], c), i>>])
    IN  [k \in 1..Len(cat) |-> cat[sorted[k][2]]]

\* the catalog after a ranker call: the loop only reads the catalog and the
\* sort works on the local list scored_outfits
catalog_after_rank(cat, c) == cat

----------------------------------------------------------------------------
(* Inputs of the ranker specification *)

\* a pool of six outfits: every gender, once as a low-budget outfit for the
\* young and once as a medium-budget outfit for the young and adults; each
\* lists two items
RankOutfits ==
    {[gender |-> g, occasion |-> "casual", occasion_subtype |-> {},
      climate |-> {"moderate"}, age_group |-> a[1], body_type |-> {"regular"},
      budget |-> a[2], items |-> <<<<"Polo", Space, "Shirt">>, <<"Jeans">>>>] :
        g \in Genders, a \in {<<{"young"}, "low">>, <<{"young", "adult"}, "medium">>}}

RankContexts ==
    [clothing_style : Genders, occasion : {"casual"}, occasion_subtype : {None},
     climate : {"moderate"}, age_group : {"young", "adult"},
     body_type : {"regular"}, budget : {"medium", "high"}]

RECURSIVE SeqsUpTo(_, _)
SeqsUpTo(S, n) ==
    IF n = 0 THEN {<< >>}
    ELSE LET shorter == SeqsUpTo(S, n - 1)
         IN  shorter \cup {Append(q, x) : q \in {t \in shorter : Len(t) = n - 1}, x \in S}

Catalogs == SeqsUpTo(RankOutfits, MaxCatalog)

InitRank ==
    /\ catalog \in Catalogs
    /\ outfit = NoOutfit
    /\ ctx = NoCtx
    /\ score = 0
    /\ score_app = 0
    /\ result = << >>
    /\ returned = << >>
    /\ first = Untracked
    /\ between = FALSE
    /\ raw = NoCtx
    /\ status = "none"
    /\ entry = "rank_and_filter_outfits"
    /\ response = << >>
    /\ WardrobeIdle
    /\ OthersIdle

\* the call rank_and_filter_outfits(occasion, climate, clothing_style, ...)
\* with the arguments c
rank_call(c) ==
    /\ ctx' = c
    /\ result' = rank_and_filter_outfits(catalog, c)
    /\ returned' = [k \in DOMAIN result' |-> catalog[result'[k]]]
    /\ catalog' = catalog_after_rank(catalog, c)
    /\ first' = IF first = NoCall
                THEN [called |-> TRUE, tracked |-> TRUE, ctx |-> c,
                      outfits |-> returned']
                ELSE first
    /\ between' = (between \/ (first.called /\ c # first.ctx))
    /\ UNCHANGED <<outfit, score, score_app, raw, status, entry, response, wvars, xvars>>

\* one call rank_and_filter_outfits(occasion, climate, clothing_style, ...)
RankCall ==
    /\ entry = "rank_and_filter_outfits"
    /\ \E c \in RankContexts : rank_call(c)

NextRank == RankCall

SpecRank == InitRank /\ [][NextRank]_vars

\* repeated ranker calls on one catalog, the first call being recorded
InitRankSeq ==
    /\ catalog \in SeqsUpTo(RankOutfits, MaxSeqCatalog)
    /\ outfit = NoOutfit
    /\ ctx = NoCtx
    /\ score = 0
    /\ score_app = 0
    /\ result = << >>
    /\ returned = << >>
    /\ first = NoCall
    /\ between = FALSE
    /\ raw = NoCtx
    /\ status = "none"
    /\ entry = "rank_and_filter_outfits"
    /\ response = << >>
    /\ WardrobeIdle
    /\ OthersIdle

SpecRankSeq == InitRankSeq /\ [][NextRank]_vars

----------------------------------------------------------------------------
(* predict: the request handler around the ranker *)

\* `if x not in [...]: x = default`
Coerce(v, D, default) == IF v \notin D THEN default ELSE v

\* no authenticated user, no such user or no stored profile
NoProfile == [stored |-> FALSE]

\* the "Get form data" block followed by the profile override: the values of
\* the fields when the validation step starts
read_request(form, profile) ==
    [occasion         |-> Get(form.occasion, "casual"),
     occasion_subtype |-> Get(form.occasion_subtype, ""),
     climate          |-> Get(form.climate, "moderate"),
     clothing_style   |-> Get(form.clothing_style, "unisex"),
     age_group        |-> IF profile = NoProfile THEN Get(form.age_group, "young")
                          ELSE Get(profile.age_group, Get(form.age_group, "young")),
     body_type        |-> IF profile = NoProfile THEN Get(form.body_type, "regular")
                          ELSE Get(profile.body_type, Get(form.body_type, "regular")),
     budget           |-> IF profile = NoProfile THEN Get(form.budget, "medium")
                          ELSE Get(profile.budget_preference, Get(form.budget, "medium"))]

\* the validation step without the line that checks the budget
validate_request_without_budget(r) ==
    [occasion         |-> Coerce(r.occasion, Occasions, "casual"),
     climate          |-> Coerce(r.climate, Climates, "moderate"),
     clothing_style   |-> Coerce(r.clothing_style, Genders, "unisex"),
     age_group        |-> Coerce(r.age_group, AgeGroups, "young"),
     body_type        |-> Coerce(r.body_type, BodyTypes, "regular"),
     budget           |-> r.budget,
     occasion_subtype |-> IF Truthy(r.occasion_subtype) THEN r.occasion_subtype ELSE None]

\* the validation step and the arguments predict passes to the ranker
validate_request(r) ==
    [occasion         |-> Coerce(r.occasion, Occasions, "casual"),
     climate          |-> Coerce(r.climate, Climates, "moderate"),
     clothing_style   |-> Coerce(r.clothing_style, Genders, "unisex"),
     age_group        |-> Coerce(r.age_group, AgeGroups, "young"),
     body_type        |-> Coerce(r.body_type, BodyTypes, "regular"),
     budget           |-> Coerce(r.budget, Budgets, "medium"),
     occasion_subtype |-> IF Truthy(r.occasion_subtype) THEN r.occasion_subtype ELSE None]

\* a submitted value: a member of the domain, a value outside it, or no value
Submitted(D) == D \cup {"bogus", Missing}

Forms ==
    [occasion : Submitted(Occasions), occasion_subtype : {Missing, "office"},
     climate : Submitted(Climates), clothing_style : Submitted(Genders),
     age_group : Submitted(AgeGroups), body_type : Submitted(BodyTypes),
     budget : Submitted(Budgets)]

\* a stored profile value: a member of the domain other than the default, a
\* value outside the domain, or no value
Stored(v) == {v, "bogus", Missing}

Profiles ==
    {NoProfile} \cup [body_type : Stored("slim"), budget_preference : Stored("high"),
                 age_group : Stored("adult")]

\* the three early returns of predict
UploadErrors == {"No image file provided", "No file selected", "Invalid file type"}

PredictCatalogs ==
    {c \in SeqsUpTo(RankOutfits, 2) :
        /\ Len(c) = 2
        /\ c[1].gender = "mens" /\ c[2].gender = "unisex"
        /\ c[1].age_group = c[2].age_group}

InitPredict ==
    /\ catalog \in PredictCatalogs
    /\ outfit = NoOutfit
    /\ ctx = NoCtx
    /\ score = 0
    /\ score_app = 0
    /\ result = << >>
    /\ returned = << >>
    /\ first = Untracked
    /\ between = FALSE
    /\ raw = NoCtx
    /\ status = "none"
    /\ entry = "predict"
    /\ response = << >>
    /\ WardrobeIdle
    /\ OthersIdle

\* POST /predict with an upload that is refused
PredictRejectUpload ==
    /\ entry = "predict"
    /\ status = "none"
    /\ \E e \in UploadErrors : status' = "400"
    /\ UNCHANGED <<catalog, outfit, ctx, score, score_app, result, returned, first, between, raw, entry, response, wvars, xvars>>

\* the ratings file without an entry: get_outfit_rating returns 0
NoRatings == [k \in 1..2 |-> 0]

\* the loop over matching_outfits with `outfit_copy = outfit` in place of
\* `outfit_copy = outfit.copy()`: the three fields are set on the catalog record
catalog_with_attached_fields(cat, res, resp) ==
    [i \in DOMAIN cat |->
        IF \E k \in DOMAIN res : res[k] = i
        THEN resp[CHOOSE k \in DOMAIN res : res[k] = i]
        ELSE cat[i]]

\* the catalog after the loop over matching_outfits: the fields are set on
\* outfit.copy(), the catalog records are read only
catalog_after_predict(cat, res, resp) == cat

\* the loop over matching_outfits: the copy of outfit o with the fields
\* predict attaches; i is the position of o in the catalog, which stands for
\* its id
outfit_copy(o, i, occasion_subtype, authenticated, ratings) ==
    LET attached ==
            [shopping_links |->
                 generate_shopping_links(o.items, o.gender, o.budget, o.occasion,
                     IF occasion_subtype \in o.occasion_subtype
                     THEN occasion_subtype ELSE None),
             average_rating |-> ratings[i]]
    IN  IF authenticated
        THEN [in_wardrobe |-> FALSE] @@ attached @@ o
        ELSE attached @@ o

\* POST /predict with an accepted upload: the form, the stored profile (if
\* any), whether the request carries a user, and the ratings file
predict(form, profile, authenticated, ratings) ==
    /\ raw' = read_request(form, profile)
    /\ ctx' = validate_request(raw')
    /\ result' = rank_and_filter_outfits(catalog, ctx')
    /\ returned' = [k \in DOMAIN result' |-> catalog[result'[k]]]
    /\ response' = [k \in DOMAIN result' |->
                       outfit_copy(catalog[result'[k]], result'[k], raw'.occasion_subtype,
                                   authenticated, ratings)]
    /\ catalog' = catalog_after_predict(catalog_after_rank(catalog, ctx'), result', response')
    /\ status' = "200"
    /\ UNCHANGED <<outfit, score, score_app, first, between, entry, wvars, xvars>>

\* POST /predict with an accepted upload, no ratings stored
Predict ==
    /\ entry = "predict"
    /\ status = "none"
    /\ \E form \in Forms, profile \in Profiles :
        predict(form, profile, profile # NoProfile, NoRatings)

NextPredict == PredictRejectUpload \/ Predict

SpecPredict == InitPredict /\ [][NextPredict]_vars

----------------------------------------------------------------------------
(* Inputs of the link builder specification *)

\* the variables of the scorer, the ranker and predict
svars == <<catalog, outfit, ctx, score, score_app, result, returned, first, between, raw,
           status, response>>

StylistIdle ==
    /\ catalog = << >>
    /\ outfit = NoOutfit
    /\ ctx = NoCtx
    /\ score = 0
    /\ score_app = 0
    /\ result = << >>
    /\ returned = << >>
    /\ first = Untracked
    /\ between = FALSE
    /\ raw = NoCtx
    /\ status = "none"
    /\ response = << >>

\* largest number of items in one call of generate_shopping_links
MaxLinkItems == 2

\* item names of one word and of two words
ItemNames == {<<"Jeans">>, <<"Polo", Space, "Shirt">>}

\* the occasion_subtype argument: None, empty, in the table of some occasion, or unknown
LinkSubtypes == {None, "", "office", "wedding", "daily", "bogus"}

InitLinks ==
    /\ StylistIdle
    /\ WardrobeIdle
    /\ OthersIdle
    /\ entry = "generate_shopping_links"

\* one call generate_shopping_links(items, gender, budget, occasion, occasion_subtype)
LinksCall ==
    /\ entry = "generate_shopping_links"
    /\ query = NoQuery
    /\ \E items \in SeqsUpTo(ItemNames, MaxLinkItems), gender \in Genders,
          budget \in Budgets \cup {"bogus"}, occasion \in Occasions,
          occasion_subtype \in LinkSubtypes :
        query' = [called |-> TRUE, items |-> items, gender |-> gender, budget |-> budget,
                  occasion |-> occasion, occasion_subtype |-> occasion_subtype,
                  links |-> generate_shopping_links(items, gender, budget, occasion,
                                                    occasion_subtype)]
    /\ UNCHANGED <<svars, entry, wardrobe, lifestyle, analysis, balance, xvars>>

NextLinks == LinksCall

SpecLinks == InitLinks /\ [][NextLinks]_vars

----------------------------------------------------------------------------
(* Inputs of the wardrobe specifications *)

\* the lifestyle key of the stored profile: a known value, another value, or no key
ProfileLifestyles == {"student", "office", "mixed", "other", Missing}

InitGaps ==
    /\ StylistIdle
    /\ OthersIdle
    /\ query = NoQuery
    /\ wardrobe \in Wardrobes
    /\ lifestyle \in ProfileLifestyles
    /\ analysis = NoAnalysis
    /\ balance = NoBalance
    /\ entry = "analyze_wardrobe_gaps"

\* one call analyze_wardrobe_gaps(user_id, user_profile)
AnalyzeGaps ==
    /\ entry = "analyze_wardrobe_gaps"
    /\ analysis' = analyze_wardrobe_gaps(wardrobe, lifestyle)
    /\ UNCHANGED <<svars, entry, query, wardrobe, lifestyle, balance, xvars>>

NextGaps == AnalyzeGaps

SpecGaps == InitGaps /\ [][NextGaps]_vars

\* calculate_wardrobe_balance does not read the profile
InitBalance ==
    /\ StylistIdle
    /\ OthersIdle
    /\ query = NoQuery
    /\ wardrobe \in Wardrobes
    /\ lifestyle = Missing
    /\ analysis = NoAnalysis
    /\ balance = NoBalance
    /\ entry = "calculate_wardrobe_balance"

\* one call calculate_wardrobe_balance(user_id)
BalanceCall ==
    /\ entry = "calculate_wardrobe_balance"
    /\ balance' = calculate_wardrobe_balance(wardrobe)
    /\ UNCHANGED <<svars, entry, query, wardrobe, lifestyle, analysis, xvars>>

\* add_wardrobe_item: POST /add stores the item.  The balance is requested
\* again after every add.
AddItem ==
    /\ entry = "calculate_wardrobe_balance"
    /\ balance.called
    /\ balance = calculate_wardrobe_balance(wardrobe)
    /\ \E k \in ItemPool :
           /\ wardrobe[k] < Copies(k)
           /\ wardrobe' = create(wardrobe, k)
    /\ UNCHANGED <<svars, entry, query, lifestyle, analysis, balance, xvars>>

NextBalance == BalanceCall \/ AddItem

SpecBalance == InitBalance /\ [][NextBalance]_vars

----------------------------------------------------------------------------
(* The running service: predict requests and ranker calls on one catalog *)

\* forms that differ in the fields the model's catalog responds to: valid ones,
\* and ones with a clothing style that the validation step replaces
ServeForms ==
    [occasion : {"casual"}, occasion_subtype : {Missing}, climate : {"moderate"},
     clothing_style : Genders \cup {"bogus"}, age_group : {"young", "adult"}, body_type : {"regular"},
     budget : {"medium", "low"}]

\* the average rating of the outfit at each catalog position
RatingTables == [1..2 -> {0, 4}]

\* catalogs of a mens and a unisex outfit, for the same age group or not
ServeCatalogs ==
    {c \in SeqsUpTo(RankOutfits, 2) :
        Len(c) = 2 /\ c[1].gender = "mens" /\ c[2].gender = "unisex"}

InitServe ==
    /\ catalog \in ServeCatalogs
    /\ outfit = NoOutfit
    /\ ctx = NoCtx
    /\ score = 0
    /\ score_app = 0
    /\ result = << >>
    /\ returned = << >>
    /\ first = Untracked
    /\ between = FALSE
    /\ raw = NoCtx
    /\ status = "none"
    /\ entry = "serve"
    /\ response = << >>
    /\ WardrobeIdle
    /\ OthersIdle

\* POST /predict from an anonymous or an authenticated client
ServePredict ==
    /\ entry = "serve"
    /\ \E form \in ServeForms, authenticated \in BOOLEAN, ratings \in RatingTables :
        predict(form, NoProfile, authenticated, ratings)

\* a ranker call from another route
ServeRank ==
    /\ entry = "serve"
    /\ \E c \in RankContexts : rank_call(c)

NextServe == ServePredict \/ ServeRank

SpecServe == InitServe /\ [][NextServe]_vars

----------------------------------------------------------------------------
(* The scorer and the ranker together: a behaviour calls one of them *)

InitCore == InitScore \/ InitRank

NextCore == ScoreCall \/ RankCall

SpecCore == InitCore /\ [][NextCore]_vars

----------------------------------------------------------------------------
(* The gap analysis while other requests of the user change the wardrobe *)

\* number of add, remove and mark-owned requests handled during one analysis
MaxWrites == 2

\* the wardrobe when the analysis is requested: at most one item of a kind,
\* tops and bottoms only
RaceWardrobes ==
    {w \in Wardrobes :
        \A k \in ItemPool : w[k] <= 1 /\ (w[k] = 1 => k.category \in {"top", "bottom"})}

InitRace ==
    /\ StylistIdle
    /\ query = NoQuery
    /\ wardrobe \in RaceWardrobes
    /\ lifestyle = "student"
    /\ analysis = NoAnalysis
    /\ balance = NoBalance
    /\ gapcall = [pc |-> "called", changes |-> 0]
    /\ AuthIdle
    /\ FilesIdle
    /\ entry = "get_wardrobe_gaps"

\* wardrobe = WardrobeItem.get_user_wardrobe(user_id): the first read
ReadWardrobe ==
    /\ gapcall.pc = "called"
    /\ gapcall' = [pc |-> "read", changes |-> gapcall.changes,
                   wardrobe |-> get_user_wardrobe(wardrobe)]
    /\ UNCHANGED <<svars, entry, wvars, avars, fvars>>

\* stats = WardrobeItem.get_wardrobe_stats(user_id), the second read, and the
\* rest of analyze_wardrobe_gaps
ReadStats ==
    /\ gapcall.pc = "read"
    /\ LET owned_items == owned_items_of(gapcall.wardrobe)
           stats == get_wardrobe_stats(wardrobe)
       IN  /\ analysis' = gaps_from(owned_items, stats, lifestyle)
           /\ gapcall' = [pc |-> "returned", changes |-> gapcall.changes,
                          wardrobe |-> gapcall.wardrobe, stats_wardrobe |-> wardrobe,
                          owned_items |-> owned_items, stats |-> stats]
    /\ UNCHANGED <<svars, entry, query, wardrobe, lifestyle, balance, avars, fvars>>

\* a request that changes the wardrobe is handled while the analysis runs
Changing(w) ==
    /\ gapcall.pc \in {"called", "read"}
    /\ gapcall.changes < MaxWrites
    /\ wardrobe' = w
    /\ gapcall' = [gapcall EXCEPT !.changes = @ + 1]
    /\ UNCHANGED <<svars, entry, query, lifestyle, analysis, balance, avars, fvars>>

\* add_wardrobe_item
AddRequest ==
    \E k \in ItemPool :
        /\ wardrobe[k] < Copies(k)
        /\ Changing(create(wardrobe, k))

\* remove_wardrobe_item
RemoveRequest ==
    \E k \in ItemPool :
        /\ wardrobe[k] > 0
        /\ Changing(remove_item(wardrobe, k))

\* mark_item_owned
MarkOwnedRequest ==
    \E k \in ItemPool, owned \in BOOLEAN :
        /\ wardrobe[k] > 0
        /\ [k EXCEPT !.owned = owned] \in ItemPool
        /\ mark_owned(wardrobe, k, owned) \in [ItemPool -> 0..MaxCopies]
        /\ Changing(mark_owned(wardrobe, k, owned))

NextRace == ReadWardrobe \/ ReadStats \/ AddRequest \/ RemoveRequest \/ MarkOwnedRequest

SpecRace == InitRace /\ [][NextRace]_vars

----------------------------------------------------------------------------
(* Favorite and rating requests handled at the same time *)

\* the requests: the outfit id of the URL and the body
FileRequests ==
    [kind : {"add_favorite"}, outfit_id : OutfitIds \cup {UnknownOutfit},
     device_id : RawDeviceIds]
    \cup [kind : {"remove_favorite"}, outfit_id : OutfitIds, device_id : RawDeviceIds]
    \cup [kind : {"add_rating"}, outfit_id : OutfitIds \cup {UnknownOutfit}, rating : Ratings]

InitFiles ==
    /\ StylistIdle
    /\ WardrobeIdle
    /\ gapcall = NoGapCall
    /\ AuthIdle
    /\ files = NoFiles
    /\ requests \in [1..MaxRequests -> [req : FileRequests, pc : {"received"}]]
    /\ entry = "favorites_and_ratings"

\* a handler runs from the arrival of its request to load_json_file
HandlerLoads ==
    /\ \E i \in DOMAIN requests :
           /\ requests[i].pc = "received"
           /\ requests' = [requests EXCEPT ![i] = loaded_by(requests[i].req, files)]
    /\ UNCHANGED <<svars, entry, wvars, gapcall, avars, files>>

\* a handler changes the dict it loaded, calls save_json_file and returns
HandlerSaves ==
    /\ \E i \in DOMAIN requests :
           /\ requests[i].pc = "loaded"
           /\ files' = saved_by(requests[i], files)
           /\ requests' = [requests EXCEPT ![i] =
                              [req |-> requests[i].req, pc |-> "returned",
                               status |-> success_status(requests[i].req.kind)]]
    /\ UNCHANGED <<svars, entry, wvars, gapcall, avars>>

NextFiles == HandlerLoads \/ HandlerSaves

SpecFiles == InitFiles /\ [][NextFiles]_vars

----------------------------------------------------------------------------
(* Magic links: tokens are generated and verified while the clock advances *)

InitTokens ==
    /\ StylistIdle
    /\ WardrobeIdle
    /\ gapcall = NoGapCall
    /\ AuthIdle
    /\ FilesIdle
    /\ entry = "magic_link"

\* one call generate_magic_link_token(email)
GenerateToken ==
    /\ entry = "magic_link"
    /\ issued < MaxTokens
    /\ \E email \in Emails :
           LET token == issued + 1
           IN  /\ magic_link_tokens' =
                      generate_magic_link_token(magic_link_tokens, token, email, now)
               /\ issued' = token
               /\ auth_call' = [op |-> "generate", token |-> token]
    /\ UNCHANGED <<svars, entry, wvars, gapcall, now, emails_returned, fvars>>

\* one call verify_magic_link_token(token)
VerifyToken ==
    /\ entry = "magic_link"
    /\ \E token \in PresentedTokens :
           LET r == verify_magic_link_token(magic_link_tokens, token, now)
           IN  /\ magic_link_tokens' = r.tokens
               /\ auth_call' = [op |-> "verify", token |-> token, value |-> r.value]
               /\ emails_returned' =
                      IF r.value # None
                      THEN [emails_returned EXCEPT ![token] = Min(2, @ + 1)]
                      ELSE emails_returned
    /\ UNCHANGED <<svars, entry, wvars, gapcall, now, issued, fvars>>

\* time passes
Tick ==
    /\ entry = "magic_link"
    /\ now + TickMinutes <= MaxTime
    /\ now' = now + TickMinutes
    /\ UNCHANGED <<svars, entry, wvars, gapcall, magic_link_tokens, issued, auth_call,
                   emails_returned, fvars>>

NextTokens == GenerateToken \/ VerifyToken \/ Tick

SpecTokens == InitTokens /\ [][NextTokens]_vars

----------------------------------------------------------------------------
(* Properties of the scorer *)

\* the gender gate of the scorer fails for outfit o and request c
GateFails(o, c) == o.gender # c.clothing_style /\ o.gender # "unisex"

\* C1: an outfit whose gender is neither the requested clothing_style nor
\* "unisex" scores 0 in both copies of the scorer, whatever the other five
\* arguments are.
C1_GenderGate ==
    (Scored /\ GateFails(outfit, ctx)) => (score = 0 /\ score_app = 0)

\* the gate fails although every other attribute of the outfit matches
C1_Witness ==
    /\ Scored /\ GateFails(outfit, ctx)
    /\ outfit.occasion = ctx.occasion
    /\ ctx.occasion_subtype \in outfit.occasion_subtype
    /\ ctx.climate \in outfit.climate
    /\ ctx.body_type \in outfit.body_type
    /\ outfit.budget = ctx.budget
    /\ score = 0

\* the additive reference of the enhanced scheme, term by term
EnhancedReference(o, c) ==
    LET gender_term   == IF o.gender = c.clothing_style THEN 100 ELSE 50
        occasion_term == IF o.occasion = c.occasion THEN 80 ELSE 0
        subtype_term  == IF c.occasion_subtype \notin {None, ""}
                            /\ c.occasion_subtype \in o.occasion_subtype THEN 40 ELSE 0
        climate_term  == IF c.climate \in o.climate THEN 30 ELSE 0
        body_term     == IF c.body_type \in o.body_type THEN 60 ELSE 0
        budget_term   == IF o.budget = c.budget THEN 40
                         ELSE IF c.budget = "medium" /\ o.budget = "low" THEN 20
                         ELSE IF c.budget = "high" THEN 20
                         ELSE 0
    IN  gender_term + occasion_term + subtype_term + climate_term + body_term + budget_term

\* C2: for a gender-compatible outfit both copies of the scorer return the
\* enhanced additive reference: 100 or 50 for the gender, 80 for the occasion,
\* 40 for a supplied subtype in the outfit's subtypes, 30 for the climate, 60
\* for the body type, and 40 / 20 / 0 for the budget.
C2_EnhancedWeights ==
    (Scored /\ ~GateFails(outfit, ctx)) =>
        (score = EnhancedReference(outfit, ctx) /\ score_app = EnhancedReference(outfit, ctx))

\* a unisex outfit for a mens request with every bonus earned, the budget one
\* as an acceptable upgrade (medium requested, low offered)
C2_Witness ==
    /\ Scored
    /\ outfit.gender = "unisex" /\ ctx.clothing_style = "mens"
    /\ outfit.occasion = ctx.occasion
    /\ ctx.occasion_subtype \in outfit.occasion_subtype
    /\ ctx.climate \in outfit.climate
    /\ ctx.body_type \in outfit.body_type
    /\ ctx.budget = "medium" /\ outfit.budget = "low"
    /\ score = 280 /\ score_app = 280

\* the outfit and the request of the worked example, no subtype supplied
C3_Case ==
    /\ Scored
    /\ outfit.gender = "mens" /\ outfit.occasion = "formal"
    /\ outfit.climate = {"moderate"} /\ outfit.body_type = {"regular"}
    /\ outfit.budget = "high" /\ outfit.age_group = {"adult"}
    /\ ctx.clothing_style = "mens" /\ ctx.occasion = "formal"
    /\ ctx.climate = "moderate" /\ ctx.body_type = "regular"
    /\ ctx.budget = "high" /\ ctx.age_group = "adult"
    /\ ~Truthy(ctx.occasion_subtype)

\* C3: the mens / formal / {moderate} / {regular} / high / {adult} outfit
\* scored for the request mens, formal, moderate, regular, high, adult without
\* a subtype scores exactly 310.
C3_ExampleScores310 == C3_Case => score = 310

C3_Witness == C3_Case /\ ctx.occasion_subtype = None /\ outfit.occasion_subtype # {}

----------------------------------------------------------------------------
(* Properties of the ranker *)

\* TRUE once the ranker has been called in this run
Ranked == entry = "rank_and_filter_outfits" /\ ctx # NoCtx

\* the catalog positions that rank_and_filter_outfits returned
Returned == {result[k] : k \in DOMAIN result}

\* the position of catalog entry i in the ranking
PosOf(i) == CHOOSE k \in DOMAIN result : result[k] = i

\* C4: the scorer returns 0 exactly when the gender gate fails, every
\* gender-compatible outfit scores at least 50, and the ranker never returns
\* an outfit that scores 0 for the request.
C4_ZeroMeansExcluded ==
    /\ Scored => /\ (score = 0 <=> GateFails(outfit, ctx))
                 /\ (~GateFails(outfit, ctx) => score >= 50)
    /\ Ranked => \A k \in DOMAIN result : ScoreOf(catalog[result[k]], ctx) # 0

\* a unisex request over a catalog with a mens outfit of the right age group,
\* which passes the pre-filter, scores 0 and is left out of a non-empty result
C4_Witness ==
    /\ Ranked
    /\ ctx.clothing_style = "unisex"
    /\ result # << >>
    /\ \E i \in 1..Len(catalog) :
        /\ catalog[i].gender = "mens"
        /\ ctx.age_group \in catalog[i].age_group
        /\ ScoreOf(catalog[i], ctx) = 0
        /\ i \notin Returned

\* C5: the ranker returns at most 3 outfits, their scores are non-increasing
\* along the result, and no outfit that passes the pre-filter and is left out
\* scores strictly higher than a returned one.
C5_TopThreeSorted ==
    Ranked =>
        /\ Len(result) <= 3
        /\ \A k \in 1..(Len(result) - 1) :
            ScoreOf(catalog[result[k]], ctx) >= ScoreOf(catalog[result[k + 1]], ctx)
        /\ \A i \in 1..Len(catalog) : \A k \in DOMAIN result :
            (i \notin Returned /\ PreFilter(catalog[i], ctx.clothing_style, ctx.age_group))
                => ScoreOf(catalog[i], ctx) <= ScoreOf(catalog[result[k]], ctx)

\* three outfits returned with two different scores, the higher-scoring one
\* behind the lower-scoring one in the catalog, and a fourth candidate cut
C5_Witness ==
    /\ Ranked
    /\ Len(result) = 3
    /\ ScoreOf(catalog[result[1]], ctx) > ScoreOf(catalog[result[3]], ctx)
    /\ result[1] > result[3]
    /\ \E i \in 1..Len(catalog) :
        /\ i \notin Returned
        /\ PreFilter(catalog[i], ctx.clothing_style, ctx.age_group)
        /\ ScoreOf(catalog[i], ctx) > 0

\* C6: a ranker call with the arguments of the first call returns the outfits
\* of the first call, in the same order, also when calls with other arguments
\* came in between.
C6_Deterministic ==
    (first.called /\ ctx = first.ctx) => returned = first.outfits

\* the first request repeated after a different one, with two outfits that
\* tie for the first request and do not tie for the request in between
C6_Witness ==
    /\ first.called /\ between /\ ctx = first.ctx
    /\ Len(returned) = 2
    /\ ScoreOf(returned[1], ctx) = ScoreOf(returned[2], ctx)
    /\ returned[1].budget = "low" /\ returned[2].budget = "medium"

\* catalog entry i survives the pre-filter and the zero-score test
Survives(i) ==
    /\ ctx.age_group \in catalog[i].age_group
    /\ ~(ctx.clothing_style = "mens" /\ catalog[i].gender = "womens")
    /\ ~(ctx.clothing_style = "womens" /\ catalog[i].gender = "mens")
    /\ ScoreOf(catalog[i], ctx) > 0

\* C7: of two surviving outfits with equal score the one earlier in the
\* catalog is earlier in the ranking, and the later one is returned only if
\* the earlier one is.
C7_TiesByCatalogOrder ==
    Ranked =>
        \A i, j \in 1..Len(catalog) :
            (i < j /\ Survives(i) /\ Survives(j)
                   /\ ScoreOf(catalog[i], ctx) = ScoreOf(catalog[j], ctx)) =>
                /\ j \in Returned => i \in Returned
                /\ (i \in Returned /\ j \in Returned) => PosOf(i) < PosOf(j)

\* four surviving outfits with one score: the first three are returned in
\* catalog order and the fourth is cut
C7_Witness ==
    /\ Ranked
    /\ Len(catalog) = 4
    /\ \A i \in 1..4 : Survives(i) /\ ScoreOf(catalog[i], ctx) = ScoreOf(catalog[1], ctx)
    /\ result = <<1, 2, 3>>

\* C8: every returned outfit has the requested age_group in its age_group set
\* and is not a womens outfit for a mens request or a mens outfit for a
\* womens request.
C8_HardConstraints ==
    Ranked =>
        \A k \in DOMAIN result :
            LET o == catalog[result[k]]
            IN  /\ ctx.age_group \in o.age_group
                /\ ~(ctx.clothing_style = "mens" /\ o.gender = "womens")
                /\ ~(ctx.clothing_style = "womens" /\ o.gender = "mens")

\* an outfit of the requested gender is refused for its age group and a
\* lower-scoring unisex outfit is returned
C8_Witness ==
    /\ Ranked
    /\ \E i \in 1..Len(catalog) :
        /\ catalog[i].gender = ctx.clothing_style
        /\ ctx.age_group \notin catalog[i].age_group
        /\ i \notin Returned
        /\ \E k \in DOMAIN result :
            /\ catalog[result[k]].gender = "unisex"
            /\ ScoreOf(catalog[result[k]], ctx) < ScoreOf(catalog[i], ctx)
    /\ \E i \in 1..Len(catalog) :
        /\ ctx.clothing_style = "womens" /\ catalog[i].gender = "mens"
        /\ ctx.age_group \in catalog[i].age_group

\* the ranker's loop with the two opposite-gender `continue` checks removed
RECURSIVE scored_without_gender_prefilter(_, _, _)
scored_without_gender_prefilter(cat, c, n) ==
    IF n = 0 THEN << >>
    ELSE LET prev == scored_without_gender_prefilter(cat, c, n - 1)
             s == ScoreOf(cat[n], c)
         IN  IF c.age_group \notin cat[n].age_group THEN prev
             ELSE IF s > 0 THEN Append(prev, <<s, n>>)
             ELSE prev

\* the ranking such a ranker returns
rank_without_gender_prefilter(cat, c) ==
    LET sorted == SortDesc(scored_without_gender_prefilter(cat, c, Len(cat)))
    IN  [k \in 1..Min(3, Len(sorted)) |-> sorted[k][2]]

\* C9: the ranker without its two opposite-gender checks (age-group filter,
\* scorer and score > 0 test kept) returns the same sequence as
\* rank_and_filter_outfits.
C9_GenderFilterRedundant ==
    Ranked => result = rank_without_gender_prefilter(catalog, ctx)

\* a mens request over a catalog with a womens outfit of the right age group:
\* the gender check of the pre-filter skips it
C9_Witness ==
    /\ Ranked
    /\ ctx.clothing_style = "mens"
    /\ result # << >>
    /\ \E i \in 1..Len(catalog) :
        /\ catalog[i].gender = "womens"
        /\ ctx.age_group \in catalog[i].age_group
        /\ i < result[1]

----------------------------------------------------------------------------
(* Properties of predict *)

\* field value v was normalised to w: w is in the domain D, equal to v when v
\* is in D and equal to the default otherwise
Normalised(v, w, D, default) ==
    /\ w \in D
    /\ v \in D => w = v
    /\ v \notin D => w = default

----------------------------------------------------------------------------
(* Properties of the link builder *)

\* the gender word of a search text: "women", "men" or nothing
gender_word(gender) ==
    IF gender = "womens" THEN <<"women">>
    ELSE IF gender = "mens" THEN <<"men">>
    ELSE << >>

\* the search text the four parts make when exactly one space separates them
SingleSpaced(item, gender, budget, occasion, occasion_subtype) ==
    join(<<Space>>,
         NonEmptyParts(<<gender_word(gender),
                         IF Truthy(occasion_subtype)
                         THEN occasion_contexts(occasion, occasion_subtype) ELSE << >>,
                         item,
                         budget_hints(budget)>>))

\* C11: the search text of every link is made of the non-empty parts among the
\* gender word, the occasion phrase, the item name and the budget hint, in
\* that order, with exactly one space between adjacent parts and none at
\* either end.
C11_SingleSpacedQuery ==
    query.called =>
        \A k \in DOMAIN query.links :
            /\ query.links[k].item = query.items[k]
            /\ query.links[k].links =
                   quote_plus(SingleSpaced(query.items[k], query.gender, query.budget,
                                           query.occasion, query.occasion_subtype))

----------------------------------------------------------------------------
(* Properties of the gap analyzer *)

\* the gaps of the returned list and of the list before the cut
ReturnedGaps == Range(analysis.returned)
FoundGaps == Range(analysis.gaps)

GapTypes(S) == {g.type : g \in S}

\* the detector a gap type belongs to
DetectorOf(type) ==
    CASE type = "occasion_category" -> "occasion"
      [] type = "color_neutral"     -> "color"
      [] type = "season"            -> "season"
      [] type \in {"category_missing", "category_low"} -> "category"

Detectors(S) == {DetectorOf(g.type) : g \in S}

EmptyCase ==
    /\ analysis.called
    /\ wardrobe = EmptyWardrobe
    /\ lifestyle \in {"student", "office", "mixed"}

\* C12 as stated: for a wardrobe with no items and each of the lifestyles
\* student, office and mixed, the returned list holds a gap of each of the four
\* detectors, and every returned gap has outfits_unlocked >= 5.
C12_AllFourDetectorsReturned ==
    EmptyCase =>
        /\ Detectors(ReturnedGaps) = {"occasion", "color", "season", "category"}
        /\ \A g \in ReturnedGaps : g.outfits_unlocked >= 5

\* C12, amended: for a wardrobe with no items every detector fires, and the
\* returned list holds a gap of the occasion, colour and category detectors
\* for each lifestyle; a season gap is returned for student only, for office
\* and mixed the ten places are taken before the season gaps.  Every returned
\* gap has outfits_unlocked >= 5.
C12_EmptyWardrobe ==
    EmptyCase =>
        /\ Detectors(FoundGaps) = {"occasion", "color", "season", "category"}
        /\ {"occasion", "color", "category"} \subseteq Detectors(ReturnedGaps)
        /\ ("season" \in Detectors(ReturnedGaps)) <=> (lifestyle = "student")
        /\ \A g \in ReturnedGaps : g.outfits_unlocked >= 5

C12_Witness ==
    /\ EmptyCase
    /\ lifestyle = "office"
    /\ Len(analysis.returned) = TopGaps
    /\ Len(analysis.gaps) > TopGaps

\* the wardrobe holds one item: the owned top tagged casual
OneTopCase ==
    /\ analysis.called
    /\ wardrobe = [EmptyWardrobe EXCEPT ![PlainTop] = 1]

\* a returned gap of the given type, category and priority that unlocks n outfits
ReturnedGap(type, category, priority, n) ==
    \E g \in ReturnedGaps :
        /\ g.type = type
        /\ g.category = category
        /\ g.priority = priority
        /\ g.outfits_unlocked = n

\* C13 as stated: with only an owned casual top the returned list holds the
\* missing-bottom and missing-footwear gaps at priority high and the category
\* detector's missing-outerwear gap at priority medium, each unlocking 5
\* outfits, for every lifestyle.
C13_CategoryOuterwearReturned ==
    (OneTopCase /\ lifestyle \in {"student", "office", "mixed"}) =>
        /\ ReturnedGap("category_missing", "bottom", "high", 5)
        /\ ReturnedGap("category_missing", "footwear", "high", 5)
        /\ ReturnedGap("category_missing", "outerwear", "medium", 5)

\* C13, amended: with only an owned casual top (no colour, no season) the
\* returned list holds the missing-bottom and missing-footwear gaps at priority
\* high and a medium gap for outerwear, each unlocking 5 outfits.  For the
\* lifestyles student, office and mixed (and a profile without lifestyle) that
\* gap is the occasion detector's casual outerwear gap: the category
\* detector's missing-outerwear gap is found but lies behind the tenth place.
C13_OneCasualTop ==
    OneTopCase =>
        /\ ReturnedGap("category_missing", "bottom", "high", 5)
        /\ ReturnedGap("category_missing", "footwear", "high", 5)
        /\ \E g \in ReturnedGaps :
               g.category = "outerwear" /\ g.priority = "medium" /\ g.outfits_unlocked = 5
        /\ \E g \in FoundGaps :
               g.type = "category_missing" /\ g.category = "outerwear" /\ g.priority = "medium"
        /\ lifestyle \in {"student", "office", "mixed", Missing} =>
               /\ \E g \in ReturnedGaps :
                      /\ g.type = "occasion_category" /\ g.occasion = "casual"
                      /\ g.category = "outerwear" /\ g.priority = "medium"
               /\ ~ReturnedGap("category_missing", "outerwear", "medium", 5)

C13_Witness ==
    /\ OneTopCase
    /\ lifestyle = "student"
    /\ Len(analysis.gaps) > TopGaps

\* the number of owned items of category c tagged with occasion o
OwnedFor(c, o) ==
    CountOf(wardrobe, {k \in ItemPool : k.owned /\ k.category = c /\ o \in k.occasions})

\* the number of owned items tagged with season s
OwnedInSeason(s) == CountOf(wardrobe, {k \in ItemPool : k.owned /\ s \in k.season})

\* the number of owned items of category c
OwnedOfCategory(c) == CountOf(wardrobe, {k \in ItemPool : k.owned /\ k.category = c})

\* the colours of the owned items
OwnedColors == UNION {k.colors : k \in {x \in ItemPool : x.owned /\ wardrobe[x] > 0}}

\* the category an essential category names: its singular
Singular(category) ==
    CASE category \in {"tops", "top"}       -> "top"
      [] category \in {"bottoms", "bottom"} -> "bottom"
      [] category = "footwear"              -> "footwear"
      [] category = "outerwear"             -> "outerwear"
      [] category = "accessories"           -> "accessory"

WellStocked ==
    /\ \A c \in Categories, o \in Occasions : OwnedFor(c, o) >= 3
    /\ \A s \in Seasons : OwnedInSeason(s) >= 3
    /\ Range(neutrals) \subseteq OwnedColors

\* C14: a well-stocked wardrobe (3 or more owned items of every essential
\* category for every occasion, 3 or more for every season, all five neutral
\* colours) gets no gap, for every lifestyle; and no returned gap names an
\* (occasion, category), a colour set, a season or a category that the owned
\* items cover in this way.
C14_NoFalseGaps ==
    analysis.called =>
        /\ WellStocked => analysis.returned = << >>
        /\ \A g \in ReturnedGaps :
            /\ g.type = "occasion_category" => OwnedFor(Singular(g.category), g.occasion) < 3
            /\ g.type = "color_neutral" => ~(Range(neutrals) \subseteq OwnedColors)
            /\ g.type = "season" => OwnedInSeason(g.season) < 3
            /\ g.type \in {"category_missing", "category_low"} =>
                   OwnedOfCategory(g.category) < 3

\* the sort key of a gap as the claim gives it
Rank(g) ==
    CASE g.priority = "high"   -> 3
      [] g.priority = "medium" -> 2
      [] g.priority = "low"    -> 1

\* gap g does not come behind gap h in descending order of (rank, outfits_unlocked)
NotBehind(g, h) ==
    \/ Rank(g) > Rank(h)
    \/ Rank(g) = Rank(h) /\ g.outfits_unlocked >= h.outfits_unlocked

Descending(s) == \A i, j \in DOMAIN s : i < j => NotBehind(s[i], s[j])

\* the number of places of s that hold x
Occurrences(s, x) == Cardinality({i \in DOMAIN s : s[i] = x})

\* C15: the returned list has at most 10 gaps in descending order of
\* (priority rank, outfits_unlocked) with high = 3, medium = 2, low = 1, and
\* it is the first part of the list of all found gaps in that order: no gap
\* that was cut ranks strictly above a returned one.
C15_TopTenSorted ==
    analysis.called =>
        /\ Len(analysis.returned) <= 10
        /\ Descending(analysis.returned)
        /\ Descending(analysis.sorted)
        /\ \A g \in FoundGaps :
               Occurrences(analysis.sorted, g) = Occurrences(analysis.gaps, g)
        /\ Len(analysis.sorted) = Len(analysis.gaps)
        /\ Len(analysis.returned) = Min(10, Len(analysis.gaps))
        /\ \A i \in DOMAIN analysis.returned : analysis.returned[i] = analysis.sorted[i]

C15_Witness ==
    /\ analysis.called
    /\ Len(analysis.gaps) > 10
    /\ \E i, j \in DOMAIN analysis.returned :
           /\ i < j
           /\ Rank(analysis.returned[i]) = Rank(analysis.returned[j])
           /\ analysis.returned[i].outfits_unlocked > analysis.returned[j].outfits_unlocked
    /\ \E i, j \in DOMAIN analysis.gaps :
           /\ i < j
           /\ Rank(analysis.gaps[i]) = Rank(analysis.gaps[j])
           /\ analysis.gaps[i].outfits_unlocked < analysis.gaps[j].outfits_unlocked

\* the potential the claim gives for a gap that names category c
ClaimedPotential(c) ==
    CASE c \in {"top", "tops"}       ->
             Max(5, OwnedOfCategory("bottom") * OwnedOfCategory("footwear"))
      [] c \in {"bottom", "bottoms"} ->
             Max(5, OwnedOfCategory("top") * OwnedOfCategory("footwear"))
      [] c = "footwear"              ->
             Max(5, OwnedOfCategory("top") * OwnedOfCategory("bottom"))
      [] c = "outerwear"             -> Max(5, OwnedOfCategory("top") * 2)
      [] OTHER                       -> 5

\* C16: outfits_unlocked of every gap is computed from the counts of the owned
\* items and is never below 5: max(5, bottoms * footwear) for a top gap,
\* max(5, tops * footwear) for a bottom gap, max(5, tops * bottoms) for a
\* footwear gap, max(5, tops * 2) for an outerwear gap, and 5 for a gap that
\* names no category or another one.
C16_OutfitPotential ==
    analysis.called =>
        \A g \in FoundGaps \cup ReturnedGaps :
            /\ g.outfits_unlocked >= 5
            /\ g.outfits_unlocked = ClaimedPotential(g.category)

C16_Witness ==
    /\ analysis.called
    /\ wardrobe[WishlistItem] = 1
    /\ \E g \in ReturnedGaps : g.category \in {"top", "tops"} /\ g.outfits_unlocked > 5
    /\ \E g \in ReturnedGaps : g.category = "accessories" /\ g.outfits_unlocked = 5

\* the occasions the occasion detector examines for a lifestyle
RelevantOccasions(ls) ==
    CASE ls = "student" -> {"casual"}
      [] ls = "office"  -> {"formal", "casual"}
      [] ls \in {"mixed", Missing} -> {"casual", "formal", "party"}
      [] OTHER -> {}

\* C20: the occasion detector emits a gap for a relevant occasion and one of
\* its essential categories exactly when the user owns no item of the
\* category's singular (top, bottom, footwear, outerwear, accessory) that is
\* tagged with the occasion; so an owned accessory tagged party suppresses the
\* party accessories gap.
C20_OccasionGapIffNoOwnedItem ==
    analysis.called =>
        \A o \in RelevantOccasions(lifestyle) :
            \A k \in DOMAIN WARDROBE_ESSENTIALS(o) :
                LET c == WARDROBE_ESSENTIALS(o)[k]
                IN  (\E g \in FoundGaps :
                        g.type = "occasion_category" /\ g.occasion = o /\ g.category = c)
                    <=> (OwnedFor(Singular(c), o) = 0)

----------------------------------------------------------------------------
(* Properties of the balance scorer *)

\* the number of owned items tagged with occasion o
OwnedForOccasion(o) == CountOf(wardrobe, {k \in ItemPool : k.owned /\ o \in k.occasions})

\* min(100, round(k / 3 * 100)): 0, 33, 67 and 100 from three items on
ClaimedReadiness(k) ==
    CASE k = 0 -> 0
      [] k = 1 -> 33
      [] k = 2 -> 67
      [] OTHER -> 100

\* C17: the readiness of an occasion and the coverage of a season are
\* min(100, round(k / 3 * 100)) for the number k of owned items tagged with
\* it; an item that is not owned raises no score.
C17_ReadinessOfOwnedItems ==
    balance.called =>
        /\ \A o \in Occasions :
               balance.occasion_readiness[o] = ClaimedReadiness(OwnedForOccasion(o))
        /\ \A s \in Seasons :
               balance.season_coverage[s] = ClaimedReadiness(OwnedInSeason(s))

\* C18: the balance of a wardrobe without items has percentage 0 in each of
\* the five categories, and the overall score, every occasion readiness, every
\* season coverage and the colour diversity lie between 0 and 100.
C18_BalanceInRange ==
    balance.called =>
        /\ CountOf(wardrobe, ItemPool) = 0 =>
               \A c \in Categories :
                   /\ balance.category_balance[c].percentage = 0
                   /\ balance.category_balance[c].count = 0
        /\ balance.overall_score \in 0..100
        /\ \A o \in Occasions : balance.occasion_readiness[o] \in 0..100
        /\ \A s \in Seasons : balance.season_coverage[s] \in 0..100
        /\ balance.color_diversity.num >= 0
        /\ balance.color_diversity.num <= 100 * balance.color_diversity.den

C18_Witness ==
    /\ balance.called
    /\ wardrobe = EmptyWardrobe
    /\ balance.overall_score = 0
    /\ \A c \in Categories : balance.category_balance[c].percentage = 0

----------------------------------------------------------------------------
(* Properties of the catalog *)

\* C19: no ranker call and no predict request changes the catalog: after any
\* sequence of them every catalog record has the fields and values it had
\* before, although predict attaches shopping_links, average_rating and
\* in_wardrobe to the outfits it returns.
C19_CatalogNotMutated == [][catalog' = catalog]_vars

\* a predict request has attached the three fields to a returned outfit, and a
\* ranker call with other arguments followed it
C19_Witness ==
    /\ entry = "serve"
    /\ status = "200"
    /\ response # << >>
    /\ {"shopping_links", "average_rating", "in_wardrobe"} \subseteq DOMAIN response[1]
    /\ response[1].average_rating = 4
    /\ ctx # validate_request(raw)
    /\ returned # << >>
    /\ \A i \in DOMAIN catalog : "shopping_links" \notin DOMAIN catalog[i]

----------------------------------------------------------------------------
(* Properties of the four detectors *)

\* the gaps of the occasion detector among the found gaps
OccasionGaps == {g \in FoundGaps : g.type = "occasion_category"}

\* the wardrobe holds no owned item
NothingOwned == \A k \in ItemPool : k.owned => wardrobe[k] = 0

\* C21: the occasion detector examines casual for lifestyle student, formal
\* and casual for office, casual, formal and party for mixed and for a profile
\* without lifestyle, and nothing for another lifestyle; ethnic is never
\* examined.  Its gaps have priority high exactly for occasion formal with
\* lifestyle office, and medium otherwise.
C21_OccasionsByLifestyle ==
    analysis.called =>
        /\ \A g \in OccasionGaps :
            /\ g.occasion \in RelevantOccasions(lifestyle)
            /\ g.occasion # "ethnic"
            /\ g.priority = (IF g.occasion = "formal" /\ lifestyle = "office"
                             THEN "high" ELSE "medium")
        /\ NothingOwned => {g.occasion : g \in OccasionGaps} = RelevantOccasions(lifestyle)

C21_Witness ==
    /\ analysis.called
    /\ lifestyle = "office"
    /\ NothingOwned
    /\ \E g \in OccasionGaps : g.occasion = "formal" /\ g.priority = "high"
    /\ \E g \in OccasionGaps : g.occasion = "casual" /\ g.priority = "medium"

\* the (type, priority) pairs of the category detector's gaps for category c
CategoryGapsFor(c) ==
    {<<g.type, g.priority>> :
        g \in {h \in FoundGaps : h.type \in {"category_missing", "category_low"}
                                 /\ h.category = c}}

\* the number of found gaps that satisfy P
NumberOfGaps(P(_)) == Cardinality({i \in DOMAIN analysis.gaps : P(analysis.gaps[i])})

\* C22: the category detector counts owned items only: for top, bottom and
\* footwear it emits category_missing at priority high for zero owned items,
\* category_low at priority medium for 1 or 2, and nothing from 3 on; it emits
\* one outerwear gap at priority medium exactly when no outerwear is owned.  An
\* entry with owned = false counts towards no threshold.
C22_CategoryThresholdsOnOwned ==
    analysis.called =>
        /\ \A c \in {"top", "bottom", "footwear"} :
            /\ CategoryGapsFor(c) =
                   (IF OwnedOfCategory(c) = 0 THEN {<<"category_missing", "high">>}
                    ELSE IF OwnedOfCategory(c) < 3 THEN {<<"category_low", "medium">>}
                    ELSE {})
            /\ NumberOfGaps(LAMBDA g : g.type \in {"category_missing", "category_low"}
                                       /\ g.category = c) <= 1
        /\ CategoryGapsFor("outerwear") =
               (IF OwnedOfCategory("outerwear") = 0
                THEN {<<"category_missing", "medium">>} ELSE {})

\* the neutrals that no owned item has, in the order of the list
MissingOwnedNeutrals == SelectSeq(neutrals, LAMBDA c : c \notin OwnedColors)

\* C23: the colour detector emits exactly one color_neutral gap at priority
\* high, naming the first two missing neutrals in the order Black, White,
\* Grey, Beige, Navy, when 2 or more neutrals are absent from the colours of
\* the owned items, and no gap when at most one is absent.
C23_ColorGapOnOwned ==
    analysis.called =>
        IF Len(MissingOwnedNeutrals) >= 2
        THEN /\ NumberOfGaps(LAMBDA g : g.type = "color_neutral") = 1
             /\ \A g \in FoundGaps :
                    g.type = "color_neutral" =>
                        /\ g.priority = "high"
                        /\ g.item_name = SubSeq(MissingOwnedNeutrals, 1, 2)
        ELSE NumberOfGaps(LAMBDA g : g.type = "color_neutral") = 0

\* C24: for each season the season detector emits one season gap at priority
\* medium, with at most 2 suggestions from the head of the season's item list,
\* exactly when fewer than 2 owned items are tagged with the season.
C24_SeasonGapOnOwned ==
    analysis.called =>
        \A s \in Seasons :
            /\ NumberOfGaps(LAMBDA g : g.type = "season" /\ g.season = s) =
                   (IF OwnedInSeason(s) < 2 THEN 1 ELSE 0)
            /\ \A g \in FoundGaps :
                   (g.type = "season" /\ g.season = s) =>
                       /\ g.priority = "medium"
                       /\ Len(g.suggestions) <= 2
                       /\ \A k \in DOMAIN g.suggestions :
                              g.suggestions[k] = SEASON_ESSENTIALS(s)[k]

\* two gaps report the same thing
SameReport(g, h) ==
    /\ g.type = h.type
    /\ g.occasion = h.occasion
    /\ g.category = h.category
    /\ g.season = h.season

\* C27: the returned list never holds two gaps with the same type, occasion,
\* category and season; for lifestyle mixed each missing casual category is
\* reported once.
C27_NoDuplicateGaps ==
    analysis.called =>
        \A i, j \in DOMAIN analysis.returned :
            i < j => ~SameReport(analysis.returned[i], analysis.returned[j])

----------------------------------------------------------------------------
(* Properties of a unisex request *)

\* C26: a request with clothing_style unisex, also one whose invalid style was
\* coerced to unisex, is answered with unisex outfits only, and with no outfit
\* when the catalog has no unisex outfit for the age group.
C26_UnisexRequest ==
    (status = "200" /\ ctx.clothing_style = "unisex") =>
        /\ \A k \in DOMAIN returned : returned[k].gender = "unisex"
        /\ (\A i \in DOMAIN catalog :
                ~(catalog[i].gender = "unisex" /\ ctx.age_group \in catalog[i].age_group))
           => returned = << >>

\* an invalid style was coerced to unisex, the catalog has a mens outfit for
\* the age group and a unisex outfit for another one, and the answer is empty
C26_Witness ==
    /\ status = "200"
    /\ raw.clothing_style = "bogus"
    /\ ctx.clothing_style = "unisex"
    /\ returned = << >>
    /\ \E i \in DOMAIN catalog :
           catalog[i].gender = "mens" /\ ctx.age_group \in catalog[i].age_group
    /\ \E i \in DOMAIN catalog :
           catalog[i].gender = "unisex" /\ ctx.age_group \notin catalog[i].age_group

----------------------------------------------------------------------------
(* Properties of the overall score *)

\* the balance was calculated for the wardrobe as it is now: no item was added
\* since
Describes ==
    \A c \in Categories :
        balance.category_balance[c].count
            = CountOf(wardrobe, {k \in ItemPool : k.category = c})

StoredColors == UNION {k.colors : k \in {x \in ItemPool : wardrobe[x] > 0}}

\* 72 times the mean of the nine values of the balance
NineValues ==
    8 * (SumOf(balance.occasion_readiness, Occasions)
         + SumOf(balance.season_coverage, Seasons))
    + balance.color_diversity.num

\* o is the integer nearest to total / 72, the even one of two
NearestTo(o, total) ==
    LET diff == IF 72 * o >= total THEN 72 * o - total ELSE total - 72 * o
    IN  /\ 2 * diff <= 72
        /\ 2 * diff = 72 => o % 2 = 0

C25_Scores ==
    (balance.called /\ Describes) =>
        /\ balance.color_diversity.den = 8
        /\ balance.color_diversity.num = Min(800, 100 * Cardinality(StoredColors))
        /\ NearestTo(balance.overall_score, NineValues)
        /\ wardrobe = EmptyWardrobe => balance.overall_score = 0
        /\ ( /\ \A o \in Occasions : CountOf(wardrobe, {k \in ItemPool : o \in k.occasions}) >= 3
             /\ \A s \in Seasons : CountOf(wardrobe, {k \in ItemPool : s \in k.season}) >= 3
             /\ Cardinality(StoredColors) >= 8 )
           => balance.overall_score = 100

\* the score of a later call is not below the score of the call before it
C25_NeverLower ==
    (balance.called /\ balance'.called) =>
        balance'.overall_score >= balance.overall_score

\* C25: color_diversity is min(100, distinct colours / 8 * 100), overall_score
\* is the rounded mean of the four occasion scores, the four season scores and
\* color_diversity; an empty wardrobe scores 0, a wardrobe with three items for
\* every occasion and season and eight colours scores 100, and adding an item
\* never lowers overall_score.
C25_OverallScore == []C25_Scores /\ [][C25_NeverLower]_vars

\* an item was added after the balance was calculated, and it brought the
\* number of colours to eight or more
C25_Witness ==
    /\ balance.called
    /\ ~Describes
    /\ balance.color_diversity.num < 800
    /\ Cardinality(StoredColors) >= 8

----------------------------------------------------------------------------
(* Properties of the magic-link tokens *)

\* the step is a call verify_magic_link_token(auth_call'.token)
VerifyStep == auth_call'.op = "verify" /\ now' = now

\* what one verification does: it returns an email only for a stored token
\* that was handed out and has not expired, and then the email stored with it;
\* it removes the token it was given from the store, and no other
C29_Verification ==
    VerifyStep =>
        LET token == auth_call'.token
            value == auth_call'.value
        IN  /\ value # None =>
                   /\ token \in Tokens
                   /\ token <= issued
                   /\ magic_link_tokens[token].stored
                   /\ value = magic_link_tokens[token].email
                   /\ now <= magic_link_tokens[token].expires_at
            /\ token \in Tokens => ~magic_link_tokens'[token].stored
            /\ \A other \in Tokens \ {token} :
                   magic_link_tokens'[other] = magic_link_tokens[other]

C29_AtMostOnce == \A token \in PresentedTokens : emails_returned[token] <= 1

\* C29: a magic-link token is single-use and time-limited: verification returns
\* its email at most once, never after the expiry time and never for a token
\* that was not issued; after a verification attempt the token is no longer
\* stored, and the other stored tokens are unchanged.
C29_SingleUseTimeLimited == []C29_AtMostOnce /\ [][C29_Verification]_vars

\* token 1 was verified in time, token 2 after its expiry time, and a second
\* token was in the store during the first verification
C29_Witness ==
    /\ issued = 2
    /\ emails_returned[1] = 1
    /\ emails_returned[2] = 0
    /\ auth_call = [op |-> "verify", token |-> 2, value |-> None]
    /\ ~magic_link_tokens[1].stored
    /\ ~magic_link_tokens[2].stored
    /\ now > MAGIC_LINK_EXPIRATION_MINUTES

----------------------------------------------------------------------------
(* Properties of the analysis under concurrent requests *)

\* C28: one analyze_wardrobe_gaps call works on a single snapshot of the
\* wardrobe: the owned-item list of the occasion detector and of the potential
\* estimate, and the statistics of the colour, season and category detectors,
\* describe the same set of items, also when add, remove and mark-owned
\* requests are handled during the call.
C28_SingleSnapshot ==
    gapcall.pc = "returned" =>
        \E w \in {gapcall.wardrobe, gapcall.stats_wardrobe} :
            /\ gapcall.owned_items = owned_items_of(w)
            /\ gapcall.stats = get_wardrobe_stats(w)

----------------------------------------------------------------------------
(* Properties of the favorites and ratings files *)

\* every request has returned, and with success
AllSucceeded ==
    \A i \in DOMAIN requests :
        requests[i].pc = "returned" /\ requests[i].status \in {"200", "201"}

\* the outfits that the requests of one kind name for device d
NamedBy(kind, d) ==
    {requests[i].req.outfit_id :
        i \in {j \in DOMAIN requests :
                  /\ requests[j].req.kind = kind
                  /\ normalize_device_id(requests[j].req.device_id) = d}}

\* how many of the places of s hold x
CountIn(s, x) == Cardinality({k \in DOMAIN s : s[k] = x})

\* C30: no acknowledged favorite or rating is lost: once all requests have
\* returned success, the favorites file holds for every device the outfits
\* added and not removed, sorted and without duplicates, and the ratings file
\* holds every accepted rating, however the requests were interleaved.
C30_NoLostUpdate ==
    AllSucceeded =>
        /\ \A d \in DeviceIds :
               LET stored == files.favorites[d]
               IN  /\ stored = sorted_ids(Range(stored))
                   /\ NamedBy("add_favorite", d) \ NamedBy("remove_favorite", d)
                          \subseteq Range(stored)
                   /\ Range(stored) \subseteq NamedBy("add_favorite", d)
        /\ \A o \in OutfitIds, r \in Ratings :
               CountIn(files.ratings[o], r)
                   = Cardinality({i \in DOMAIN requests :
                                     /\ requests[i].req.kind = "add_rating"
                                     /\ requests[i].req.outfit_id = o
                                     /\ requests[i].req.rating = r})

====
